---- MODULE Spec2Model ----
(***************************************************************************)
(* Workflow application service of coze-local                              *)
(* (backend/application/workflow/workflow.go).                             *)
(*                                                                         *)
(* Three parts share this module:                                          *)
(*   - GetProcess: the polled listing of an execution's node results,     *)
(*     with the merge of batch-mode nodes (SpecProcess);                   *)
(*   - convertStreamRunEvent: the converter from engine messages to        *)
(*     client events, fed any message sequence (SpecConvert);              *)
(*   - the run / resume operations of the application service on top of    *)
(*     the workflow domain service, with the stream each one opens (Spec). *)
(*                                                                         *)
(* Go pointers that may be nil are options: Nil is <<>>, Some(x) is <<x>>. *)
(***************************************************************************)
EXTENDS Integers, Sequences, FiniteSets, TLC

Nil == <<>>

Some(x) == <<x>>

IsNil(o) == o = <<>>

\* ptr.FromOrDefault(p, d)
FromOrDefault(o, d) == IF o = <<>> THEN d ELSE o[1]

(***************************************************************************)
(* Bounds of the model.                                                    *)
(***************************************************************************)
\* longest list of NodeExecutions of one execution
MaxNodes == 3

\* most iterations (IndexedExecutions) of one batch-mode node
MaxIter == 2

(***************************************************************************)
(* Entities read by GetProcess.                                            *)
(***************************************************************************)
EntryNodeKey == "100001"

ExitNodeKey == "900001"

\* vo.GenerateNodeKeyForBatchMode: the key of the node generated inside a
\* batch-mode node is the key of the batch-control node plus a suffix.
GenerateNodeKeyForBatchMode(key) ==
    CASE key = "B" -> "B_inner"
      [] OTHER -> "generated"

IsGeneratedNodeForBatchMode(key, parentKey) ==
    key = GenerateNodeKeyForBatchMode(parentKey)

\* One iteration of a batch: a NodeExecution with ParentNodeID and Index, or a
\* hole (nil) in the IndexedExecutions list.
IterVals == {"hole", "Success"}

RECURSIVE SeqsUpTo(_, _)
SeqsUpTo(S, n) ==
    IF n = 0 THEN {<<>>}
    ELSE LET shorter == SeqsUpTo(S, n - 1)
         IN  shorter \cup {Append(s, x) : s \in {t \in shorter : Len(t) = n - 1}, x \in S}

IterLists == SeqsUpTo(IterVals, MaxIter) \ {<<>>}

\* An entity.NodeExecution.  Name, input, output and extra of a node are told
\* apart by the node key they carry; SubWorkflowExecution and TokenInfo are nil.
NodeExe(id, type, parent, status, errInfo, indexed) ==
    [NodeID |-> id, NodeName |-> id, NodeType |-> type, Status |-> status,
     ErrorInfo |-> errInfo, ErrorLevel |-> IF errInfo = Nil THEN Nil ELSE Some("Error"),
     Input |-> Some(id), Output |-> Some(id), Extra |-> Some(id),
     ParentNodeID |-> parent, IndexedExecutions |-> indexed]

NodeErr == Some("node error")

\* The NodeExecutions an execution can hold: entry, exit, a plain node, the
\* batch-control shell of batch-mode node "B", the node generated inside it
\* (carrying the iterations), and a node "K" enclosed in a composite batch node.
NodeExesOf(key) ==
    CASE key = EntryNodeKey ->
           {NodeExe(key, "Entry", Nil, "Success", Nil, <<>>)}
      [] key = ExitNodeKey ->
           {NodeExe(key, "Exit", Nil, "Success", Nil, <<>>),
            NodeExe(key, "Exit", Nil, "Failed", NodeErr, <<>>)}
      [] key = "L" ->
           {NodeExe(key, "LLM", Nil, "Success", Nil, <<>>),
            NodeExe(key, "LLM", Nil, "Failed", NodeErr, <<>>),
            NodeExe(key, "LLM", Nil, "Failed", Nil, <<>>)}
      [] key = "B" ->
           {NodeExe(key, "Batch", Nil, "Success", Nil, <<>>),
            NodeExe(key, "Batch", Nil, "Failed", NodeErr, <<>>)}
      [] key = "B_inner" ->
           {NodeExe(key, "LLM", Some("B"), "Success", Nil, it) : it \in IterLists}
      [] key = "K" ->
           {NodeExe(key, "LLM", Some("B"), "Success", Nil, <<"Success">>)}

NodeKeys == {EntryNodeKey, ExitNodeKey, "L", "B", "B_inner", "K"}

RECURSIVE NodeLists(_)
\* the lists of at most n NodeExecutions with pairwise distinct node keys
NodeLists(n) ==
    IF n = 0 THEN {<<>>}
    ELSE LET shorter == NodeLists(n - 1)
         IN  shorter \cup
             UNION {
               UNION { {Append(l, ne) : ne \in NodeExesOf(k)}
                       : k \in NodeKeys \ {l[i].NodeID : i \in 1..Len(l)} }
               : l \in {t \in shorter : Len(t) = n - 1} }

\* the node keys of the nodes that are no batch-mode node and are enclosed
\* in none
PlainNodeKeys == {EntryNodeKey, ExitNodeKey, "L"}

RECURSIVE PlainLists(_)
\* the lists of at most n NodeExecutions of such nodes with pairwise
\* distinct node keys
PlainLists(n) ==
    IF n = 0 THEN {<<>>}
    ELSE LET shorter == PlainLists(n - 1)
         IN  shorter \cup
             UNION {
               UNION { {Append(l, ne) : ne \in NodeExesOf(k)}
                       : k \in PlainNodeKeys \ {l[i].NodeID : i \in 1..Len(l)} }
               : l \in {t \in shorter : Len(t) = n - 1} }

WorkflowStatuses == {"Running", "Success", "Failed", "Interrupted"}

FailReasons == {Nil, Some("workflow failed")}

(***************************************************************************)
(* Strings of ids and numbers: a string is a sequence of characters.       *)
(***************************************************************************)
Digits == <<"0", "1", "2", "3", "4", "5", "6", "7", "8", "9">>

IsDigit(c) == \E i \in 1..10 : Digits[i] = c

DigitVal(c) == (CHOOSE i \in 1..10 : Digits[i] = c) - 1

RECURSIVE ItoaNat(_)
ItoaNat(n) ==
    IF n < 10 THEN <<Digits[n + 1]>>
    ELSE ItoaNat(n \div 10) \o <<Digits[(n % 10) + 1]>>

\* strconv.Itoa, strconv.FormatInt(n, 10) and fmt.Sprintf("%d", n)
Itoa(n) == IF n < 0 THEN <<"-">> \o ItoaNat(0 - n) ELSE ItoaNat(n)

RECURSIVE DigitsValue(_, _)
DigitsValue(s, acc) ==
    IF s = <<>> THEN acc
    ELSE DigitsValue(Tail(s), acc * 10 + DigitVal(Head(s)))

\* strconv.ParseInt(s, 10, 64): an optional sign and at least one digit
ParseInt(s) ==
    LET signed == s # <<>> /\ Head(s) \in {"-", "+"}
        body == IF signed THEN Tail(s) ELSE s
        ok == body # <<>> /\ \A i \in 1..Len(body) : IsDigit(body[i])
    IN  IF ~ok THEN [ok |-> FALSE, val |-> 0]
        ELSE [ok |-> TRUE,
              val |-> IF signed /\ Head(s) = "-" THEN 0 - DigitsValue(body, 0)
                      ELSE DigitsValue(body, 0)]

RECURSIVE SplitFrom(_, _, _)
SplitFrom(s, sep, cur) ==
    IF s = <<>> THEN <<cur>>
    ELSE IF Head(s) = sep THEN <<cur>> \o SplitFrom(Tail(s), sep, <<>>)
    ELSE SplitFrom(Tail(s), sep, Append(cur, Head(s)))

\* strings.Split(s, sep) for a separator of one character
Split(s, sep) == SplitFrom(s, sep, <<>>)

\* fmt.Sprintf("%.2f", float64(num)/float64(den)) for num >= 0 and den > 0:
\* the quotient rounded to the nearest hundredth, a tie to the even one (a
\* tie needs a den of 8 or more)
FormatRate(num, den) ==
    LET q == (100 * num) \div den
        r2 == 2 * ((100 * num) % den)
        h == IF r2 > den \/ (r2 = den /\ q % 2 = 1) THEN q + 1 ELSE q
    IN  Itoa(h \div 100) \o <<".", Digits[((h % 100) \div 10) + 1], Digits[(h % 10) + 1]>>

(***************************************************************************)
(* convertNodeExecution and mergeBatchModeNodes.                           *)
(***************************************************************************)
\* entity.NodeMetaByNodeType(t).GetDisplayKey()
GetDisplayKey(nodeType) ==
    CASE nodeType = "Entry" -> "Start"
      [] nodeType = "Exit" -> "End"
      [] OTHER -> nodeType

\* the conversion of one entry of IndexedExecutions: nil stays nil (a JSON
\* null in the marshalled array), an iteration becomes its NodeResult
convertIndexedExecution(sub, index) ==
    IF sub = "hole" THEN Nil
    ELSE Some([NodeStatus |-> sub, Index |-> index])

convertNodeExecution(nodeExe) ==
    [NodeId |-> nodeExe.NodeID,
     NodeName |-> nodeExe.NodeName,
     NodeType |-> GetDisplayKey(nodeExe.NodeType),
     NodeStatus |-> nodeExe.Status,
     ErrorInfo |-> FromOrDefault(nodeExe.ErrorInfo, ""),
     Input |-> FromOrDefault(nodeExe.Input, ""),
     Output |-> FromOrDefault(nodeExe.Output, ""),
     ErrorLevel |-> FromOrDefault(nodeExe.ErrorLevel, ""),
     Index |-> IF nodeExe.ParentNodeID # Nil THEN Some(0) ELSE Nil,
     IsBatch |-> IF Len(nodeExe.IndexedExecutions) > 0 THEN Some(TRUE) ELSE Nil,
     Batch |-> IF Len(nodeExe.IndexedExecutions) > 0
               THEN Some([i \in 1..Len(nodeExe.IndexedExecutions) |->
                            convertIndexedExecution(nodeExe.IndexedExecutions[i], i - 1)])
               ELSE Nil,
     Extra |-> FromOrDefault(nodeExe.Extra, "")]

mergeBatchModeNodes(parent, inner) ==
    [NodeId |-> parent.NodeId,
     NodeType |-> inner.NodeType,
     NodeName |-> parent.NodeName,
     NodeStatus |-> parent.NodeStatus,
     ErrorInfo |-> parent.ErrorInfo,
     Input |-> parent.Input,
     Output |-> parent.Output,
     ErrorLevel |-> parent.ErrorLevel,
     Index |-> Nil,
     Batch |-> inner.Batch,
     IsBatch |-> inner.IsBatch,
     Extra |-> inner.Extra]

(***************************************************************************)
(* GetProcess: the loop over the execution's NodeExecutions.               *)
(***************************************************************************)
\* a Go map as a function; m[k] = v and delete(m, k)
MapPut(m, k, v) == [x \in DOMAIN m \cup {k} |-> IF x = k THEN v ELSE m[x]]

MapDelete(m, k) == [x \in DOMAIN m \ {k} |-> m[x]]

EmptyMap == [x \in {} |-> Nil]

\* the local variables of GetProcess before the loop
LoopStart ==
    [NodeResults |-> <<>>,
     batchNodeID2NodeResult |-> EmptyMap,
     batchNodeID2InnerNodeResult |-> EmptyMap,
     successNum |-> 0,
     hasNodeErr |-> FALSE,
     endNodeExe |-> 0]

\* a variant that counts no success
AppendResultUncounted(st, nr) == [st EXCEPT !.NodeResults = Append(@, nr)]

\* the tail of one loop iteration: count a success, append the result
AppendResult(st, nr) ==
    [st EXCEPT !.successNum = IF nr.NodeStatus = "Success" THEN @ + 1 ELSE @,
               !.NodeResults = Append(@, nr)]

\* the batch branch of the loop for a NodeExecution of type Batch
BatchShellStep(st, nodeExe, nr) ==
    IF nodeExe.NodeID \in DOMAIN st.batchNodeID2InnerNodeResult
    THEN AppendResult(
           [st EXCEPT !.batchNodeID2InnerNodeResult = MapDelete(@, nodeExe.NodeID)],
           mergeBatchModeNodes(st.batchNodeID2InnerNodeResult[nodeExe.NodeID], nr))
    ELSE [st EXCEPT !.batchNodeID2NodeResult = MapPut(@, nodeExe.NodeID, nr)]

\* the branch of the loop for a NodeExecution that carries IndexedExecutions
IndexedStep(st, nodeExe, nr) ==
    LET parentID == nodeExe.ParentNodeID[1] IN
    IF IsGeneratedNodeForBatchMode(nodeExe.NodeID, parentID)
    THEN IF parentID \in DOMAIN st.batchNodeID2NodeResult
         THEN AppendResult(
                [st EXCEPT !.batchNodeID2NodeResult = MapDelete(@, parentID)],
                mergeBatchModeNodes(st.batchNodeID2NodeResult[parentID], nr))
         ELSE [st EXCEPT !.batchNodeID2InnerNodeResult = MapPut(@, parentID, nr)]
    ELSE AppendResult(st, nr)

\* one iteration of the loop.  endNodeExe points at the exit node's result,
\* which this iteration appends: it is kept as that result's position.
LoopStep(st, nodeExe) ==
    LET nr == convertNodeExecution(nodeExe)
        s1 == [st EXCEPT !.hasNodeErr =
                 @ \/ (nodeExe.Status = "Failed" /\ nodeExe.ErrorInfo # Nil),
               !.endNodeExe =
                 IF nodeExe.NodeType = "Exit" THEN Len(st.NodeResults) + 1 ELSE @]
    IN  IF nodeExe.NodeType = "Batch" THEN BatchShellStep(s1, nodeExe, nr)
        ELSE IF Len(nodeExe.IndexedExecutions) > 0 THEN IndexedStep(s1, nodeExe, nr)
        ELSE AppendResult(s1, nr)

RECURSIVE Loop(_, _)
Loop(st, nodeExes) ==
    IF nodeExes = <<>> THEN st
    ELSE Loop(LoopStep(st, Head(nodeExes)), Tail(nodeExes))

\* the NodeResult GetProcess makes up for the end node of a failed execution
SynthesizedEndNode(failReason) ==
    [NodeId |-> ExitNodeKey, NodeName |-> "", NodeType |-> "End",
     NodeStatus |-> "Failed", ErrorInfo |-> failReason, Input |-> "", Output |-> "",
     ErrorLevel |-> "Error", Index |-> Nil, IsBatch |-> Nil, Batch |-> Nil,
     Extra |-> ""]

WithFailReason(nr, failReason) ==
    [nr EXCEPT !.ErrorInfo = failReason, !.ErrorLevel = "Error"]

\* after the loop: the fail reason of a failed execution without a failed node
\* goes to the end node, to the only result, or to a made-up end node
AttachFailReason(st, status, failReasonPtr) ==
    IF status = "Failed" /\ ~st.hasNodeErr /\ failReasonPtr # Nil
    THEN LET failReason == failReasonPtr[1] IN
         IF st.endNodeExe # 0
         THEN [st EXCEPT !.NodeResults[st.endNodeExe] = WithFailReason(@, failReason)]
         ELSE IF Len(st.NodeResults) = 1 /\ st.NodeResults[1].NodeType # "Start"
         THEN [st EXCEPT !.NodeResults[1] = WithFailReason(@, failReason)]
         ELSE [st EXCEPT !.NodeResults = Append(@, SynthesizedEndNode(failReason))]
    ELSE st

RECURSIVE Perms(_)
\* the orders in which a range over a Go map can visit the keys S
Perms(S) ==
    IF S = {} THEN {<<>>}
    ELSE UNION {{<<k>> \o p : p \in Perms(S \ {k})} : k \in S}

RECURSIVE AppendLeftOver(_, _)
\* the last loop: every batch node left without its inner node is appended
AppendLeftOver(st, order) ==
    IF order = <<>> THEN st
    ELSE AppendLeftOver(AppendResult(st, st.batchNodeID2NodeResult[Head(order)]),
                        Tail(order))

\* a variant that reports the status as it is stored
ExecuteStatusAsStored(wfExe) == wfExe.Status

\* the status reported to the polling client
ExecuteStatus(wfExe) ==
    IF wfExe.Status = "Interrupted" THEN "Running" ELSE wfExe.Status

\* the NodeEvent of a pending interrupt event: for an interrupt raised by a
\* workflow tool of an LLM node, of the tool's interrupt event under the id
\* of the outer one
NodeEventOf(ie) ==
    [ID |-> Itoa(ie.ID),
     Type |-> IF ie.EventType = "LLM" THEN ie.ToolInterruptEvent[1].EventType
              ELSE ie.EventType]

\* the response of GetProcess for the execution wfExe, the range over the
\* map of left-over batch nodes visiting them in this order
ProcessResponse(wfExe, order) ==
    LET status == ExecuteStatus(wfExe)
        looped == Loop(LoopStart, wfExe.NodeExecutions)
        failed == AttachFailReason(looped, status, wfExe.FailReason)
        final == AppendLeftOver(failed, order)
    IN  [ExecuteStatus |-> status,
         Reason |-> wfExe.FailReason,
         NodeResults |-> final.NodeResults,
         successNum |-> final.successNum,
         Rate |-> IF wfExe.NodeCount > 0
                  THEN FormatRate(final.successNum, wfExe.NodeCount) ELSE <<>>,
         NodeEvents |-> [i \in 1..Len(wfExe.InterruptEvents) |->
                           NodeEventOf(wfExe.InterruptEvents[i])]]

LeftOverOrders(wfExe) ==
    Perms(DOMAIN Loop(LoopStart, wfExe.NodeExecutions).batchNodeID2NodeResult)

(***************************************************************************)
(* convertStreamRunEvent: the messages of the engine and the converter.    *)
(***************************************************************************)
\* most execution ids told apart in one stream (the root and nested ones)
MaxExec == 2

\* highest id of an InterruptEvent of one execution
MaxEvent == 2

\* most messages one converter is fed
MaxMsgs == 3

ExecIDs == 1..MaxExec

\* most executions the execution state store holds
MaxRuns == 1

RunIDs == 1..MaxRuns

EventIDs == 1..MaxEvent

StreamNodeIDs == {"n1", "n2"}

\* StateMessage.LastError: a vo.WorkflowError with its code and message, or
\* an error that is no WorkflowError (nil included)
LastErrors ==
    {[typed |-> TRUE, Code |-> "c1", Msg |-> "m1"],
     [typed |-> TRUE, Code |-> "c2", Msg |-> "m2"],
     [typed |-> FALSE, Code |-> "", Msg |-> ""]}

NoError == [typed |-> FALSE, Code |-> "", Msg |-> ""]

\* Message.InterruptEvent: its ID, its EventType and, for an interrupt raised
\* by a workflow tool of an LLM node, the ToolInterruptEvent with its own type
InterruptEvents ==
    {[ID |-> i, EventType |-> IF t = Nil THEN "Question" ELSE "LLM", ToolInterruptEvent |-> t] :
        i \in EventIDs, t \in {Nil, Some([EventType |-> "Input"])}}

NoInterrupt == [ID |-> 0, EventType |-> "", ToolInterruptEvent |-> Nil]

Msg(kind, exe, status, lastErr, ie, type, node) ==
    [kind |-> kind, ExecuteID |-> exe, Status |-> status, LastError |-> lastErr,
     InterruptEvent |-> ie, Type |-> type, NodeID |-> node]

StateMessages ==
    {Msg("state", e, st, NoError, NoInterrupt, "", "") :
        e \in ExecIDs, st \in {"Running", "Success", "Unknown"}}
    \cup {Msg("state", e, st, le, NoInterrupt, "", "") :
        e \in ExecIDs, st \in {"Failed", "Cancelled"}, le \in LastErrors}
    \cup {Msg("state", e, "Interrupted", NoError, ie, "", "") :
        e \in ExecIDs, ie \in InterruptEvents}

DataMessages ==
    {Msg("data", e, "", NoError, NoInterrupt, t, n) :
        e \in ExecIDs, t \in {"Answer", "FunctionCall", "ToolResponse"}, n \in StreamNodeIDs}

\* a Message with neither StateMessage nor DataMessage
EmptyMessage == Msg("none", 0, "", NoError, NoInterrupt, "", "")

Messages == StateMessages \cup DataMessages \cup {EmptyMessage}

\* an OpenAPIStreamRunFlowResponse (debug URL, content and token left out)
ClientEvent(id, event, errCode, errMsg, interrupt, nodeID, nodeSeq) ==
    [ID |-> id, Event |-> event, ErrorCode |-> errCode, ErrorMessage |-> errMsg,
     InterruptData |-> interrupt, NodeID |-> nodeID, NodeSeqID |-> nodeSeq]

\* the closure variables of one converter
NewConverter == [messageID |-> 0, executeID |-> 0, nodeID2Seq |-> EmptyMap]

\* what one call returns: res, err ("" is nil) and whether it panicked
Returned(conv, res, err, panic) ==
    [conv |-> conv, res |-> res, err |-> err, panic |-> panic]

\* a variant that builds the key the other way round
InterruptResponseSwapped(conv, msg) ==
    LET ie == msg.InterruptEvent
        type == IF ie.ToolInterruptEvent = Nil THEN ie.EventType
                ELSE ie.ToolInterruptEvent[1].EventType
    IN  ClientEvent(Itoa(conv.messageID), "Interrupt", Nil, Nil,
                    Some([EventID |-> Itoa(ie.ID) \o <<"/">> \o Itoa(conv.executeID),
                          Type |-> type]),
                    Nil, Nil)

\* the Interrupted case: the event id is "<executeID>/<InterruptEvent.ID>"
InterruptResponse(conv, msg) ==
    LET ie == msg.InterruptEvent
        type == IF ie.ToolInterruptEvent = Nil THEN ie.EventType
                ELSE ie.ToolInterruptEvent[1].EventType
    IN  ClientEvent(Itoa(conv.messageID), "Interrupt", Nil, Nil,
                    Some([EventID |-> Itoa(conv.executeID) \o <<"/">> \o Itoa(ie.ID),
                          Type |-> type]),
                    Nil, Nil)

\* a variant that reports every last error, typed or not
FailedResponseNoFault(conv, msg) ==
    Returned(conv,
             Some(ClientEvent(Itoa(conv.messageID), "Error",
                              Some(msg.LastError.Code), Some(msg.LastError.Msg),
                              Nil, Nil, Nil)),
             "", FALSE)

\* the Failed and Cancelled case: errors.As(LastError, &wfe), or a panic
FailedResponse(conv, msg) ==
    IF ~msg.LastError.typed
    THEN Returned(conv, Nil, "", TRUE)
    ELSE Returned(conv,
                  Some(ClientEvent(Itoa(conv.messageID), "Error",
                                   Some(msg.LastError.Code), Some(msg.LastError.Msg),
                                   Nil, Nil, Nil)),
                  "", FALSE)

\* the switch on StateMessage.Status
StateResponse(conv, msg) ==
    CASE msg.Status = "Success" ->
           Returned(conv,
                    Some(ClientEvent(Itoa(conv.messageID), "Done", Nil, Nil, Nil, Nil, Nil)),
                    "", FALSE)
      [] msg.Status \in {"Failed", "Cancelled"} -> FailedResponse(conv, msg)
      [] msg.Status = "Interrupted" ->
           Returned(conv, Some(InterruptResponse(conv, msg)), "", FALSE)
      [] msg.Status = "Running" ->
           Returned([conv EXCEPT !.executeID = msg.ExecuteID], Nil, "ErrNoValue", FALSE)
      [] OTHER -> Returned(conv, Nil, "ErrNoValue", FALSE)

\* a variant that lets the StateMessages of every execution through
ConvertStateUnfiltered(conv, msg) == StateResponse(conv, msg)

\* the body of the converter for a message with a StateMessage
ConvertState(conv, msg) ==
    IF conv.executeID > 0 /\ conv.executeID # msg.ExecuteID
    THEN Returned(conv, Nil, "ErrNoValue", FALSE)
    ELSE StateResponse(conv, msg)

\* a variant that numbers the chunks of a node from 1
AnswerResponseFromOne(conv, msg) ==
    LET seq == IF msg.NodeID \in DOMAIN conv.nodeID2Seq
               THEN conv.nodeID2Seq[msg.NodeID] ELSE 1
    IN  Returned([conv EXCEPT !.nodeID2Seq = MapPut(@, msg.NodeID, seq + 1)],
                 Some(ClientEvent(Itoa(conv.messageID), "Message", Nil, Nil, Nil,
                                  Some(msg.NodeID), Some(Itoa(seq)))),
                 "", FALSE)

\* the Answer case: the Message event with the next sequence number of the
\* node (the zero value of the map for a node not seen yet)
AnswerResponse(conv, msg) ==
    LET seq == IF msg.NodeID \in DOMAIN conv.nodeID2Seq
               THEN conv.nodeID2Seq[msg.NodeID] ELSE 0
    IN  Returned([conv EXCEPT !.nodeID2Seq = MapPut(@, msg.NodeID, seq + 1)],
                 Some(ClientEvent(Itoa(conv.messageID), "Message", Nil, Nil, Nil,
                                  Some(msg.NodeID), Some(Itoa(seq)))),
                 "", FALSE)

\* a variant that lets the Answer chunks of every execution through
ConvertDataUnfiltered(conv, msg) ==
    IF msg.Type # "Answer" THEN Returned(conv, Nil, "ErrNoValue", FALSE)
    ELSE AnswerResponse(conv, msg)

\* a variant that lets the chunks of every kind through
ConvertDataAnyKind(conv, msg) ==
    IF conv.executeID > 0 /\ conv.executeID # msg.ExecuteID
    THEN Returned(conv, Nil, "ErrNoValue", FALSE)
    ELSE AnswerResponse(conv, msg)

\* the body of the converter for a message with a DataMessage
ConvertData(conv, msg) ==
    IF msg.Type # "Answer" THEN Returned(conv, Nil, "ErrNoValue", FALSE)
    ELSE IF conv.executeID > 0 /\ conv.executeID # msg.ExecuteID
    THEN Returned(conv, Nil, "ErrNoValue", FALSE)
    ELSE AnswerResponse(conv, msg)

\* a variant that never counts a message
DeferredNoIncrement(ret) == ret

\* the deferred function: messageID++ when err is nil (also while panicking,
\* err being the zero value then)
Deferred(ret) ==
    IF ret.err = "" THEN [ret EXCEPT !.conv.messageID = @ + 1] ELSE ret

\* one call of the function convertStreamRunEvent returns
Convert(conv, msg) ==
    Deferred(CASE msg.kind = "state" -> ConvertState(conv, msg)
               [] msg.kind = "data" -> ConvertData(conv, msg)
               [] OTHER -> Returned(conv, Nil, "", FALSE))

(***************************************************************************)
(* State.                                                                  *)
(***************************************************************************)
VARIABLES
    wfExeEntity,   \* GetProcess: the execution GetExecution returned
    processResp,   \* GetProcess: the response to the last poll, or Nil
    converter,     \* the closure variables of the stream's converter
    events,        \* the client events the stream has emitted, in order
    nilItems,      \* the calls of the converter that returned (nil, nil)
    panicked,      \* the converter panicked: the reader of the stream is gone
    handled,       \* the number of messages the converter was fed
    lastMsg,       \* the message the converter was fed last
    exes,          \* the executions of the execution state store, by id
    consumed,      \* the <<execution, interrupt event>> pairs resumed so far
    stream,        \* the stream of the engine the converter reads from
    apiResp,       \* the request the application service has just answered
    runReq,        \* a request to run a workflow, or Nil
    runOut,        \* what the operation made of runReq, or Nil
    sched,         \* the scheduling of the nodes of a test run
    store,         \* the draft and the published versions of a workflow
    seen,          \* what was saved last and what each version was first read as
    verOut,        \* the answer to the last operation on the workflow
    icon,          \* the node icon URL cache, its mutex and the goroutines on it
    dag,           \* the canvas of one execution and the state of its nodes
    debug,         \* a NodeDebug request and what the operation made of it
    detail,        \* a GetWorkflowDetailInfo request and the answer to it
    login,         \* the users and the CheckLoginStatusPost requests in flight
    plugins        \* pluginProducts, toolProducts and the progress of their loading

processVars == <<wfExeEntity, processResp>>

streamVars == <<converter, events, nilItems, panicked, handled, lastMsg>>

engineVars == <<exes, consumed, stream, apiResp>>

requestVars == <<runReq, runOut>>

versionVars == <<store, seen, verOut>>

\* the variables of the parts that are modelled on their own
ownVars == <<dag, debug, detail, login, plugins>>

\* all other variables
baseVars == <<processVars, streamVars, engineVars, runReq, runOut, sched, store, seen, verOut,
              icon>>

\* the variables of the parts that are modelled one operation at a time
sideVars == <<runReq, runOut, sched, store, seen, verOut, icon, ownVars>>

\* the side variables the operations on executions leave alone
notSchedVars == <<runReq, runOut, store, seen, verOut, icon, ownVars>>

vars == <<wfExeEntity, processResp, converter, events, nilItems, panicked, handled, lastMsg,
          exes, consumed, stream, apiResp, runReq, runOut, sched, store, seen, verOut,
          icon, dag, debug, detail, login, plugins>>

\* the executions with these lists of NodeExecutions and these node counts
WorkflowExecutionsOf(lists, counts) ==
    {[Status |-> s, FailReason |-> IF s = "Failed" THEN r ELSE Nil, NodeExecutions |-> l,
      NodeCount |-> c, InterruptEvents |-> <<>>] :
        s \in WorkflowStatuses, r \in FailReasons, l \in lists, c \in counts}

\* the executions GetExecution can return with at most n NodeExecutions: of
\* a workflow of n nodes, or without a node count
WorkflowExecutions(n) == WorkflowExecutionsOf(NodeLists(n), {0, n})

\* the lists of NodeExecutions without a batch-mode node and without a node
\* enclosed in one
PlainNodeLists == PlainLists(MaxNodes)

\* the executions without a batch-mode node, of a workflow of any number of
\* nodes
PlainExecutions == WorkflowExecutionsOf(PlainNodeLists, 0..MaxNodes)

NoExecution ==
    [Status |-> "Running", FailReason |-> Nil, NodeExecutions |-> <<>>, NodeCount |-> 0,
     InterruptEvents |-> <<>>]

\* the lists of pending interrupt events an execution can hold: events with
\* pairwise distinct ids
PendingEvents ==
    {l \in SeqsUpTo(InterruptEvents, MaxEvent) :
        \A i, j \in 1..Len(l) : l[i].ID = l[j].ID => i = j}

\* the executions GetExecution can return with pending interrupt events, of
\* at most one node
InterruptedExecutions ==
    {[Status |-> s, FailReason |-> Nil, NodeExecutions |-> l, NodeCount |-> 0,
      InterruptEvents |-> ies] :
        s \in WorkflowStatuses, l \in PlainLists(1), ies \in PendingEvents}

\* no request to run a workflow is looked at
RequestIdle ==
    /\ runReq = Nil
    /\ runOut = Nil

\* the nodes of the workflow of a test run: a chain from entry to exit
MaxChain == 2

ChainNodes == 1..MaxChain

\* no test run is scheduled: exe is the id of the execution, signal the
\* cancel signal of the execution
NoSched == [exe |-> 0, nodes |-> [n \in ChainNodes |-> "Waiting"], signal |-> FALSE]

SchedIdle == sched = NoSched

\* the versions a workflow may have published
Versions == {"v1", "v2"}

\* the canvas schemas a client may save
Schemas == {"s1", "s2"}

\* a workflow as it is created: a draft with the canvas it was created
\* with, and no version
NewWorkflow == [draft |-> "s1", versions |-> EmptyMap]

NoAnswer == [op |-> "", err |-> "", version |-> "", schema |-> ""]

VersionIdle ==
    /\ store = NewWorkflow
    /\ seen = [saved |-> Nil, first |-> EmptyMap]
    /\ verOut = NoAnswer

\* the node metas InitNodeIconURLCache starts a goroutine for
MaxMetas == 2

Writers == 1..MaxMetas

\* the requests that read the cache
Readers == {"GetNodeTemplateList", "GetProcess"}

\* the node type of node meta w and the string a map lookup returns for a
\* key it does not hold
NodeTypeOf(w) == Itoa(w)

NoURL == <<>>

\* nodeIconURLCache = make(map[string]string) and the zero nodeIconURLCacheMu,
\* with the goroutines and the requests before their first step.  mu is the
\* goroutine that holds the mutex (0: none), key the key a reader looks up,
\* raced whether a write ran while the reader was reading, fatal whether the
\* runtime has stopped the process
IconStart ==
    [cache |-> EmptyMap, mu |-> 0,
     wpc |-> [w \in Writers |-> "start"],
     rpc |-> [r \in Readers |-> "start"],
     key |-> [r \in Readers |-> NoURL],
     raced |-> [r \in Readers |-> FALSE],
     got |-> [r \in Readers |-> NoURL],
     fatal |-> FALSE]

CacheIdle == icon = IconStart

\* the nodes a canvas may hold
MaxDag == 3

DagNodes == 1..MaxDag

\* no canvas is scheduled: edges are the <<source, target>> pairs of the
\* canvas
NoDag == [edges |-> {}, nodes |-> [n \in DagNodes |-> "Waiting"]]

DagIdle == dag = NoDag

\* the keys the input, batch and setting maps of a NodeDebug request may hold
MaxKeys == 2

\* no NodeDebug request was made
DebugIdle == debug = [req |-> Nil, out |-> Nil]

\* the entries the filter list of a GetWorkflowDetailInfo request may hold
MaxFilters == 2

\* no GetWorkflowDetailInfo request was made
DetailIdle == detail = [req |-> Nil, out |-> Nil]

\* the CheckLoginStatusPost requests in flight at the same time
MaxLogins == 2

LoginRequests == 1..MaxLogins

\* one request before its first step: ctx is the token of its body, account
\* what the external service answered, login and register how the calls of
\* the user service ended ("" if not called), status the HTTP status of the
\* response (0: none yet), cookie the session cookie set on the response
NoLogin ==
    [pc |-> "start", ctx |-> "", account |-> "", login |-> "", register |-> "",
     status |-> 0, cookie |-> Nil]

\* no user exists and no request was made
LoginIdle == login = [users |-> {}, reqs |-> [r \in LoginRequests |-> NoLogin]]

\* the tools one plugin metadata entry may list
MaxTools == 2

\* pluginProducts = make(map[int64]*PluginInfo) and toolProducts =
\* map[int64]*ToolInfo{} before the first entry of the metadata file.
\* kept counts, per plugin id, the entries that were loaded, duplicate holds
\* the plugin ids of the entries that were skipped because their plugin id
\* was loaded already, and returned tells that the function has returned
PluginStart ==
    [pluginProducts |-> EmptyMap, toolProducts |-> EmptyMap,
     kept |-> EmptyMap, duplicate |-> {}, returned |-> FALSE]

PluginIdle == plugins = PluginStart

\* the parts that are modelled on their own are idle
OwnIdle == DagIdle /\ DebugIdle /\ DetailIdle /\ LoginIdle /\ PluginIdle

SideIdle ==
    /\ RequestIdle
    /\ SchedIdle
    /\ VersionIdle
    /\ CacheIdle
    /\ OwnIdle

\* no poll is going on
ProcessIdle ==
    /\ wfExeEntity = NoExecution
    /\ processResp = Nil

\* convertStreamRunEvent(workflowID): a fresh converter
StreamStart ==
    /\ converter = NewConverter
    /\ events = <<>>
    /\ nilItems = 0
    /\ panicked = FALSE
    /\ handled = 0
    /\ lastMsg = EmptyMessage

NoStream == [exe |-> 0, by |-> "", open |-> FALSE]

NilError == [typed |-> FALSE, code |-> "", cause |-> ""]

NoRequest == [op |-> "", req |-> <<>>, err |-> "", exe |-> 0]

\* nothing has been run
EngineIdle ==
    /\ exes = [e \in RunIDs |-> [status |-> "None", pending |-> 0, lastEvent |-> 0]]
    /\ consumed = {}
    /\ stream = NoStream
    /\ apiResp = NoRequest

(***************************************************************************)
(* SpecProcess: GetProcess over any stored execution.                      *)
(***************************************************************************)
InitProcess ==
    /\ wfExeEntity \in WorkflowExecutions(MaxNodes)
    /\ processResp = Nil
    /\ StreamStart
    /\ EngineIdle
    /\ SideIdle

GetProcess ==
    /\ \E order \in LeftOverOrders(wfExeEntity) :
          processResp' = Some(ProcessResponse(wfExeEntity, order))
    /\ UNCHANGED wfExeEntity
    /\ UNCHANGED streamVars
    /\ UNCHANGED engineVars
    /\ UNCHANGED sideVars

NextProcess == GetProcess

SpecProcess == InitProcess /\ [][NextProcess]_vars

(***************************************************************************)
(* SpecRate: GetProcess over any stored execution without a batch-mode     *)
(* node.                                                                   *)
(***************************************************************************)
InitRate ==
    /\ wfExeEntity \in PlainExecutions
    /\ processResp = Nil
    /\ StreamStart
    /\ EngineIdle
    /\ SideIdle

NextRate == GetProcess

SpecRate == InitRate /\ [][NextRate]_vars

(***************************************************************************)
(* SpecEvents: GetProcess over any stored execution with pending interrupt *)
(* events.                                                                 *)
(***************************************************************************)
InitEvents ==
    /\ wfExeEntity \in InterruptedExecutions
    /\ processResp = Nil
    /\ StreamStart
    /\ EngineIdle
    /\ SideIdle

NextEvents == GetProcess

SpecEvents == InitEvents /\ [][NextEvents]_vars

(***************************************************************************)
(* Spec: the run and resume operations of the application service, the     *)
(* workflow domain service behind them and the stream they open.           *)
(***************************************************************************)
\* an error that is no vo.WorkflowError, and vo.NewError(code)
PlainError(cause) == [typed |-> FALSE, code |-> "", cause |-> cause]

NewError(code) == [typed |-> TRUE, code |-> code, cause |-> code]

\* safego.NewPanicErr: the error the deferred recover makes of a panic
NewPanicErr(cause) == PlainError(cause)

\* vo.WrapIfNeeded(code, err): an error that is no WorkflowError is wrapped
\* into one of kind code with its root cause
WrapIfNeeded(code, err) ==
    IF err = NilError \/ err.typed THEN err
    ELSE [typed |-> TRUE, code |-> code, cause |-> err.cause]

\* what an operation answers: its deferred function wraps the error, of which
\* the answer keeps the code ("" is nil).  The request is kept with the
\* answer of a request that succeeded.
Answer(op, req, err, exe) ==
    [op |-> op, req |-> IF err = NilError THEN req ELSE <<>>,
     err |-> WrapIfNeeded("ErrWorkflowExecuteFail", err).code, exe |-> exe]

\* the ids of the executions created so far and the id of the next one
Created == {e \in RunIDs : exes[e].status # "None"}

CanCreate == Created # RunIDs

NextExecutionID == CHOOSE e \in RunIDs \ Created : \A o \in RunIDs \ Created : e <= o

RunningMessage(e) == Msg("state", e, "Running", NoError, NoInterrupt, "", "")

\* the stream of execution e is being produced and has a reader
Streaming(e) == stream.exe = e /\ stream.open /\ ~panicked

\* the state of the converter and of its reader after msg went through
\* the converter conv of a reader that had emitted evs
ReaderAfter(conv, evs, nils, n, msg) ==
    LET ret == Convert(conv, msg) IN
    [converter |-> ret.conv,
     events |-> IF ret.res # Nil /\ ~ret.panic THEN Append(evs, ret.res[1]) ELSE evs,
     nilItems |-> IF ret.res = Nil /\ ret.err = "" /\ ~ret.panic THEN nils + 1 ELSE nils,
     panicked |-> ret.panic,
     handled |-> n + 1,
     lastMsg |-> msg]

SetReader(r) ==
    /\ converter' = r.converter
    /\ events' = r.events
    /\ nilItems' = r.nilItems
    /\ panicked' = r.panicked
    /\ handled' = r.handled
    /\ lastMsg' = r.lastMsg

\* schema.StreamReaderWithConvert hands the next message of the stream to the
\* converter: ErrNoValue skips the message, a panic unwinds into the reader
FeedConverter(msg) ==
    /\ ~panicked
    /\ SetReader(ReaderAfter(converter, events, nilItems, handled, msg))

\* StreamExecute / StreamResume hand out a new stream, which starts with the
\* transition of the execution to Running; the caller wraps it in a fresh
\* converter (schema.StreamReaderWithConvert(sr, convertStreamRunEvent(id))).
\* The reader pulls every message as the engine sends it.
OpenStream(e, by) ==
    /\ stream' = [exe |-> e, by |-> by, open |-> TRUE]
    /\ SetReader(ReaderAfter(NewConverter, <<>>, 0, 0, RunningMessage(e)))

\* the engine creates the WorkflowExecution of a run in this status
CreateExecution(e, status) ==
    exes' = [exes EXCEPT ![e] =
               [status |-> status,
                pending |-> IF status = "Interrupted" THEN 1 ELSE 0,
                lastEvent |-> IF status = "Interrupted" THEN 1 ELSE 0]]

\* the checks OpenAPIRun and OpenAPIStreamRun make before they execute: the
\* workflow has a published version, the user is a member of its space, and
\* not both of app id and bot id are set
RunRejection(published, member, both) ==
    IF ~published THEN NewError("ErrWorkflowNotPublished")
    ELSE IF ~member THEN PlainError("user does not have access to space")
    ELSE IF both THEN PlainError("project_id and bot_id cannot be set at the same time")
    ELSE NilError

\* the requests to run a workflow: one that passes the checks, and one for
\* each check that fails it
RunRequests ==
    {r \in [published : BOOLEAN, member : BOOLEAN, both : BOOLEAN] :
        \/ r.published /\ r.member
        \/ ~r.both /\ (r.published \/ r.member)}

OpenAPIStreamRun ==
    \E r \in RunRequests :
        LET rejection == RunRejection(r.published, r.member, r.both) IN
        IF rejection # NilError
        THEN /\ apiResp' = Answer("OpenAPIStreamRun", <<>>, rejection, 0)
             /\ UNCHANGED <<exes, consumed, stream>>
             /\ UNCHANGED streamVars
             /\ UNCHANGED processVars
             /\ UNCHANGED sideVars
        ELSE /\ CanCreate
             /\ CreateExecution(NextExecutionID, "Running")
             /\ OpenStream(NextExecutionID, "StreamExecute")
             /\ apiResp' = Answer("OpenAPIStreamRun", <<>>, NilError, NextExecutionID)
             /\ UNCHANGED consumed
             /\ UNCHANGED processVars
             /\ UNCHANGED sideVars

\* what SyncExecute can return: the execution in the status it stopped in
SyncOutcomes == {"Success", "Failed", "Interrupted"}

\* a variant that answers with the execution whatever its status
SyncRunAnswerAnyStatus(wfExeID, wfExeStatus) ==
    Answer("OpenAPIRun", <<>>, NilError, wfExeID)

\* OpenAPIRun after SyncExecute returned wfExe without an error
SyncRunAnswer(wfExeID, wfExeStatus) ==
    IF wfExeStatus = "Interrupted"
    THEN Answer("OpenAPIRun", <<>>, NewError("ErrInterruptNotSupported"), 0)
    ELSE Answer("OpenAPIRun", <<>>, NilError, wfExeID)

OpenAPIRun ==
    \E r \in RunRequests :
        LET rejection == RunRejection(r.published, r.member, r.both) IN
        /\ IF rejection # NilError
           THEN /\ apiResp' = Answer("OpenAPIRun", <<>>, rejection, 0)
                /\ UNCHANGED exes
           ELSE /\ CanCreate
                /\ \E isAsync \in BOOLEAN :
                      IF isAsync
                      THEN /\ CreateExecution(NextExecutionID, "Running")
                           /\ apiResp' = Answer("OpenAPIRun", <<>>, NilError, NextExecutionID)
                      ELSE \E outcome \in SyncOutcomes :
                              /\ CreateExecution(NextExecutionID, outcome)
                              /\ apiResp' = SyncRunAnswer(NextExecutionID, outcome)
        /\ UNCHANGED <<consumed, stream>>
        /\ UNCHANGED streamVars
        /\ UNCHANGED processVars
        /\ UNCHANGED sideVars

\* a variant that accepts a resume of an execution whatever its status
ResumeAcceptedAnyStatus(executeID, eventID) == executeID \in RunIDs

\* StreamResume / AsyncResume of the domain service accept the request iff
\* the execution is parked at exactly this interrupt event
ResumeAccepted(executeID, eventID) ==
    /\ executeID \in RunIDs
    /\ exes[executeID].status = "Interrupted"
    /\ exes[executeID].pending = eventID

\* the accepted resume consumes the interrupt: the execution runs again
Resume(executeID, eventID) ==
    /\ exes' = [exes EXCEPT ![executeID].status = "Running", ![executeID].pending = 0]
    /\ consumed' = consumed \cup {<<executeID, eventID>>}

ResumeMismatch == PlainError("interrupt event does not match the pending one")

\* the two numbers of the event id of a stream resume request, or the error
ParseEventID(idStr) ==
    LET idSegments == Split(idStr, "/") IN
    IF Len(idSegments) # 2
    THEN [err |-> PlainError("invalid event id when stream resume"), executeID |-> 0, eventID |-> 0]
    ELSE IF ~ParseInt(idSegments[1]).ok
    THEN [err |-> PlainError("failed to parse executeID"), executeID |-> 0, eventID |-> 0]
    ELSE IF ~ParseInt(idSegments[2]).ok
    THEN [err |-> PlainError("failed to parse eventID"), executeID |-> 0, eventID |-> 0]
    ELSE [err |-> NilError, executeID |-> ParseInt(idSegments[1]).val,
          eventID |-> ParseInt(idSegments[2]).val]

\* the execution ids a client may name: those of the executions the store
\* can hold, and one it never holds
RequestExecIDs == 1..(MaxRuns + 1)

\* the event ids a client may send: the keys of interrupts, of any
\* execution and event, and strings that are no key
EventIDStrings ==
    {Itoa(e) \o <<"/">> \o Itoa(v) : e \in RequestExecIDs, v \in EventIDs}
    \cup {<<"1">>, <<"1", "/", "x">>, <<"1", "/", "1", "/", "1">>}

\* a variant that drops the error of the domain service
StreamResumeErrorOfParseOnly(parsed) == parsed.err

\* the error OpenAPIStreamResume returns for this event id, NilError if none
StreamResumeError(parsed) ==
    IF parsed.err # NilError THEN parsed.err
    ELSE IF ~ResumeAccepted(parsed.executeID, parsed.eventID) THEN ResumeMismatch
    ELSE NilError

OpenAPIStreamResume ==
    \E idStr \in EventIDStrings :
        LET parsed == ParseEventID(idStr)
            err == StreamResumeError(parsed)
        IN
        /\ apiResp' = Answer("OpenAPIStreamResume", idStr, err, 0)
        /\ IF parsed.err = NilError /\ ResumeAccepted(parsed.executeID, parsed.eventID)
           THEN /\ Resume(parsed.executeID, parsed.eventID)
                /\ OpenStream(parsed.executeID, "StreamResume")
           ELSE /\ UNCHANGED <<exes, consumed, stream>>
                /\ UNCHANGED streamVars
        /\ UNCHANGED processVars
        /\ UNCHANGED sideVars

\* mustParseInt64: the number, or a panic
NumberStrings == {Itoa(n) : n \in RequestExecIDs} \cup {<<"x">>}

\* the error TestResume returns, NilError if none
TestResumeError(member, executeID, eventID) ==
    IF ~member THEN PlainError("user does not have access to space")
    ELSE IF ~ParseInt(executeID).ok \/ ~ParseInt(eventID).ok
    THEN NewPanicErr("strconv.ParseInt: invalid syntax")
    ELSE IF ~ResumeAccepted(ParseInt(executeID).val, ParseInt(eventID).val)
    THEN ResumeMismatch
    ELSE NilError

\* the requests to resume a test run: of a member of the space with any
\* ids, and one of a user who is no member
TestResumeRequests ==
    {r \in [member : BOOLEAN, executeID : NumberStrings, eventID : {Itoa(v) : v \in EventIDs}] :
        r.member \/ (r.executeID = <<"1">> /\ r.eventID = <<"1">>)}

TestResume ==
    \E r \in TestResumeRequests :
        LET member == r.member
            executeID == r.executeID
            eventID == r.eventID
            err == TestResumeError(member, executeID, eventID) IN
        /\ apiResp' = Answer("TestResume", executeID \o <<"/">> \o eventID, err, 0)
        /\ IF err = NilError
           THEN Resume(ParseInt(executeID).val, ParseInt(eventID).val)
           ELSE UNCHANGED <<exes, consumed>>
        /\ UNCHANGED stream
        /\ UNCHANGED streamVars
        /\ UNCHANGED processVars
        /\ UNCHANGED sideVars

\* the id of an execution nested in execution e: the id of no execution
\* that was run
NestedExecutionID(e) == MaxRuns + e

\* the messages a running execution e sends besides its own transitions:
\* chunks of its nodes, and chunks and transitions of nested executions
EngineMessages(e) ==
    {Msg("data", e, "", NoError, NoInterrupt, "Answer", "n1"),
     Msg("state", NestedExecutionID(e), "Success", NoError, NoInterrupt, "", "")}

\* the engine sends msg on the stream of execution e, if it has a reader;
\* the last message of an execution closes its stream
Send(e, msg, last) ==
    IF Streaming(e)
    THEN /\ FeedConverter(msg)
         /\ stream' = [stream EXCEPT !.open = ~last]
    ELSE /\ UNCHANGED stream
         /\ UNCHANGED streamVars

\* a node of the running execution e sends a chunk, or a nested execution of
\* e sends a message
EngineEmit ==
    \E e \in RunIDs :
        /\ exes[e].status = "Running"
        /\ Streaming(e)
        /\ handled < MaxMsgs
        /\ \E msg \in EngineMessages(e) : Send(e, msg, FALSE)
        /\ apiResp' = NoRequest
        /\ UNCHANGED <<exes, consumed>>
        /\ UNCHANGED processVars
        /\ UNCHANGED sideVars

\* a node of the running execution e requests an interrupt: the engine gives
\* it the next event id of the execution, parks the execution and ends the
\* stream with the transition to Interrupted
EngineInterrupt ==
    \E e \in RunIDs :
        /\ exes[e].status = "Running"
        /\ exes[e].lastEvent < MaxEvent
        /\ LET id == exes[e].lastEvent + 1 IN
             /\ exes' = [exes EXCEPT ![e] =
                           [status |-> "Interrupted", pending |-> id, lastEvent |-> id]]
             /\ \E ie \in {i \in InterruptEvents : i.ID = id /\ i.ToolInterruptEvent = Nil} :
                   Send(e, Msg("state", e, "Interrupted", NoError, ie, "", ""), TRUE)
        /\ apiResp' = NoRequest
        /\ UNCHANGED consumed
        /\ UNCHANGED processVars
        /\ UNCHANGED sideVars

\* the execution e as the store holds it once it has ended in this status:
\* no interrupt of it is pending
Ended(status) == [status |-> status, pending |-> 0, lastEvent |-> 0]

\* the running execution e ends: the stream ends with that transition, and
\* the interrupts of e, which nothing can resume any more, are dropped
EngineFinish ==
    \E e \in RunIDs :
        /\ exes[e].status = "Running"
        /\ \/ /\ exes' = [exes EXCEPT ![e] = Ended("Success")]
              /\ Send(e, Msg("state", e, "Success", NoError, NoInterrupt, "", ""), TRUE)
           \/ /\ exes' = [exes EXCEPT ![e] = Ended("Failed")]
              /\ \E le \in {l \in LastErrors : l.Code # "c2"} :
                    Send(e, Msg("state", e, "Failed", le, NoInterrupt, "", ""), TRUE)
        /\ apiResp' = NoRequest
        /\ consumed' = {p \in consumed : p[1] # e}
        /\ UNCHANGED processVars
        /\ UNCHANGED sideVars

Init ==
    /\ ProcessIdle
    /\ StreamStart
    /\ EngineIdle
    /\ SideIdle

Next ==
    \/ OpenAPIStreamRun
    \/ OpenAPIRun
    \/ OpenAPIStreamResume
    \/ TestResume
    \/ EngineEmit
    \/ EngineInterrupt
    \/ EngineFinish

Spec == Init /\ [][Next]_vars

(***************************************************************************)
(* SpecConvert: one converter fed any sequence of messages.                *)
(***************************************************************************)
InitConvert ==
    /\ ProcessIdle
    /\ StreamStart
    /\ EngineIdle
    /\ SideIdle

ConvertAny ==
    /\ handled < MaxMsgs
    /\ \E msg \in Messages : FeedConverter(msg)
    /\ UNCHANGED processVars
    /\ UNCHANGED sideVars
    /\ UNCHANGED engineVars

NextConvert == ConvertAny

SpecConvert == InitConvert /\ [][NextConvert]_vars

(***************************************************************************)
(* SpecRun: TestRun, NodeDebug, OpenAPIRun and OpenAPIStreamRun on any     *)
(* request, up to and including their call of the workflow domain service. *)
(***************************************************************************)
\* an id of a request: not set, a number, or a string that is no number
IDOpts == {Nil, Some(<<"7">>), Some(<<"x">>)}

\* an id a request must have: a number, or a string that is no number
IDStrings == {<<"7">>, <<"x">>}

\* what the operations read of a request and of its context: whether the
\* user is a member of the workflow's space, the meta of the workflow, and
\* the ids and flags of the request (TestRun and NodeDebug read SpaceID,
\* WorkflowID, ProjectID and BotID; the OpenAPI operations do not read
\* SpaceID)
RunFlowRequests ==
    [member : BOOLEAN, SpaceID : IDStrings, WorkflowID : IDStrings,
     LatestPublishedVersion : {Nil} \cup {Some(v) : v \in Versions},
     AppID : IDOpts, ProjectID : IDOpts, BotID : IDOpts,
     IsAsync : BOOLEAN]

\* ptr.Of(mustParseInt64(id)) of an id that is set, nil of one that is not;
\* mustParseInt64 panics on a string that is no number
ParsedID(id) ==
    IF id = Nil THEN [panic |-> FALSE, id |-> Nil]
    ELSE IF ~ParseInt(id[1]).ok THEN [panic |-> TRUE, id |-> Nil]
    ELSE [panic |-> FALSE, id |-> Some(ParseInt(id[1]).val)]

\* the body of an operation returns err, after the call of the engine if it
\* made one
Outcome(err, call) == [panic |-> FALSE, err |-> err, call |-> call]

\* the body of an operation panics
Panics == [panic |-> TRUE, err |-> NilError, call |-> Nil]

\* workflowModel.ExecuteConfig (the fields the claims are about)
ExecuteConfig(from, version, mode, appID, agentID, syncPattern) ==
    [From |-> from, Version |-> version, Mode |-> mode,
     AppID |-> appID, AgentID |-> agentID, SyncPattern |-> syncPattern]

EngineCall(op, cfg) == Some([op |-> op, cfg |-> cfg])

\* a variant that never finds both ids set
BothSetNever(appID, agentID) == FALSE

\* exeCfg.AppID != nil && exeCfg.AgentID != nil
BothSet(appID, agentID) == appID # Nil /\ agentID # Nil

BothSetError == PlainError("project_id and bot_id cannot be set at the same time")

NoAccessError == PlainError("user does not have access to space")

\* TestRun and NodeDebug, which differ in the mode and in the engine
\* operation they call
DebugRunBody(req, op, mode) ==
    IF ~ParseInt(req.SpaceID).ok THEN Panics
    ELSE IF ~req.member THEN Outcome(NoAccessError, Nil)
    ELSE LET appID == ParsedID(req.ProjectID)
             agentID == ParsedID(req.BotID)
         IN  IF appID.panic \/ agentID.panic \/ ~ParseInt(req.WorkflowID).ok THEN Panics
             ELSE IF BothSet(appID.id, agentID.id) THEN Outcome(BothSetError, Nil)
             ELSE Outcome(NilError,
                          EngineCall(op, ExecuteConfig("FromDraft", Nil, mode,
                                                       appID.id, agentID.id, "Async")))

TestRunBody(req) == DebugRunBody(req, "AsyncExecute", "Debug")

NodeDebugBody(req) == DebugRunBody(req, "AsyncExecuteNode", "NodeDebug")

\* the app id of an OpenAPI request: app_id, else project_id
OpenAPIAppID(req) ==
    IF req.AppID # Nil THEN ParsedID(req.AppID) ELSE ParsedID(req.ProjectID)

\* a variant that runs the draft of a workflow that has published nothing
PublishedCheckSkipped(meta) == NilError

\* meta.LatestPublishedVersion == nil
PublishedCheck(meta) ==
    IF meta = Nil THEN NewError("ErrWorkflowNotPublished") ELSE NilError

\* OpenAPIRun and OpenAPIStreamRun, which differ in the engine operation
\* they call
OpenAPIRunBodyOf(req, op, syncPattern) ==
    IF ~ParseInt(req.WorkflowID).ok THEN Panics
    ELSE IF PublishedCheck(req.LatestPublishedVersion) # NilError
    THEN Outcome(PublishedCheck(req.LatestPublishedVersion), Nil)
    ELSE IF ~req.member THEN Outcome(NoAccessError, Nil)
    ELSE LET appID == OpenAPIAppID(req)
             agentID == ParsedID(req.BotID)
         IN  IF appID.panic \/ agentID.panic THEN Panics
             \* *meta.LatestPublishedVersion of a nil pointer panics
             ELSE IF req.LatestPublishedVersion = Nil THEN Panics
             ELSE IF BothSet(appID.id, agentID.id) THEN Outcome(BothSetError, Nil)
             ELSE Outcome(NilError,
                          EngineCall(op, ExecuteConfig(
                              "FromSpecificVersion",
                              Some(req.LatestPublishedVersion[1]), "Release",
                              appID.id, agentID.id, syncPattern)))

OpenAPIStreamRunBody(req) == OpenAPIRunBodyOf(req, "StreamExecute", "Stream")

OpenAPIRunBody(req) ==
    IF req.IsAsync THEN OpenAPIRunBodyOf(req, "AsyncExecute", "Async")
    ELSE OpenAPIRunBodyOf(req, "SyncExecute", "Sync")

\* BatchDeleteWorkflow: the ids of the list are parsed with an error, the
\* space id with a panic; the workflow is deleted by the domain service
BatchDeleteWorkflowBody(req) ==
    IF ~ParseInt(req.SpaceID).ok THEN Panics
    ELSE IF ~req.member THEN Outcome(NoAccessError, Nil)
    ELSE IF ~ParseInt(req.WorkflowID).ok
    THEN Outcome(PlainError("strconv.ParseInt: invalid syntax"), Nil)
    ELSE Outcome(NilError, Some([op |-> "Delete", cfg |-> Nil]))

\* the operations on an execution that exists, on a request of which the
\* execute id and the event id are well-formed.
\* TestResume: the space id is parsed, the membership checked, AsyncResume
\* called
TestResumeBody(req) ==
    IF ~ParseInt(req.SpaceID).ok THEN Panics
    ELSE IF ~req.member THEN Outcome(NoAccessError, Nil)
    ELSE Outcome(NilError, Some([op |-> "AsyncResume", cfg |-> Nil]))

\* Cancel: the space id is parsed, the membership checked, the ids parsed,
\* Cancel of the domain service called
CancelBody(req) ==
    IF ~ParseInt(req.SpaceID).ok THEN Panics
    ELSE IF ~req.member THEN Outcome(NoAccessError, Nil)
    ELSE IF ~ParseInt(req.WorkflowID).ok THEN Panics
    ELSE Outcome(NilError, Some([op |-> "Cancel", cfg |-> Nil]))

\* OpenAPIStreamResume: the event id is split and parsed, the workflow id
\* parsed, StreamResume called
OpenAPIStreamResumeBody(req) ==
    IF ~ParseInt(req.WorkflowID).ok THEN Panics
    ELSE Outcome(NilError, Some([op |-> "StreamResume", cfg |-> Nil]))

\* a variant without recover: the panic leaves the operation
DeferredRecoverNone(body, code) ==
    [panic |-> body.panic, err |-> WrapIfNeeded(code, body.err), call |-> body.call]

\* the deferred function of an operation: a panic is recovered into an
\* error, and an error that is no WorkflowError is wrapped into one of kind
\* code
DeferredRecover(body, code) ==
    IF body.panic
    THEN [panic |-> FALSE,
          err |-> WrapIfNeeded(code, NewPanicErr("strconv.ParseInt: invalid syntax")),
          call |-> Nil]
    ELSE [panic |-> FALSE, err |-> WrapIfNeeded(code, body.err), call |-> body.call]

\* the WorkflowExecution the engine creates for a call: in the context of
\* the config, Running
CreatedExecution(call) ==
    IF call = Nil \/ call[1].cfg = Nil THEN Nil
    ELSE Some([Status |-> "Running", AppID |-> call[1].cfg.AppID,
               AgentID |-> call[1].cfg.AgentID,
               From |-> call[1].cfg.From, Version |-> call[1].cfg.Version])

\* what the caller and the engine see of an operation that returns ret
RunOutcome(op, ret) ==
    Some([op |-> op, panic |-> ret.panic, err |-> ret.err, call |-> ret.call,
          created |-> CreatedExecution(ret.call)])

InitRun ==
    /\ ProcessIdle
    /\ StreamStart
    /\ EngineIdle
    /\ runReq \in {Some(r) : r \in RunFlowRequests}
    /\ runOut = Nil
    /\ SchedIdle
    /\ VersionIdle
    /\ CacheIdle
    /\ OwnIdle

\* the variables the run operations of this part leave alone
notRequestVars == <<wfExeEntity, processResp, converter, events, nilItems, panicked,
                    handled, lastMsg, exes, consumed, stream, apiResp, sched,
                    store, seen, verOut, icon, ownVars>>

CallTestRun ==
    /\ runOut' = RunOutcome("TestRun", DeferredRecover(TestRunBody(runReq[1]), "ErrWorkflowExecuteFail"))
    /\ UNCHANGED runReq
    /\ UNCHANGED notRequestVars

CallNodeDebug ==
    /\ runOut' = RunOutcome("NodeDebug", DeferredRecover(NodeDebugBody(runReq[1]), "ErrWorkflowExecuteFail"))
    /\ UNCHANGED runReq
    /\ UNCHANGED notRequestVars

CallOpenAPIRun ==
    /\ runOut' = RunOutcome("OpenAPIRun", DeferredRecover(OpenAPIRunBody(runReq[1]), "ErrWorkflowExecuteFail"))
    /\ UNCHANGED runReq
    /\ UNCHANGED notRequestVars

CallOpenAPIStreamRun ==
    /\ runOut' =
          RunOutcome("OpenAPIStreamRun",
                     DeferredRecover(OpenAPIStreamRunBody(runReq[1]), "ErrWorkflowExecuteFail"))
    /\ UNCHANGED runReq
    /\ UNCHANGED notRequestVars

\* BatchDeleteWorkflow has no deferred function: what its body does is what
\* the caller gets
CallBatchDeleteWorkflow ==
    /\ runOut' = RunOutcome("BatchDeleteWorkflow", BatchDeleteWorkflowBody(runReq[1]))
    /\ UNCHANGED runReq
    /\ UNCHANGED notRequestVars

CallTestResume ==
    /\ runOut' =
          RunOutcome("TestResume",
                     DeferredRecover(TestResumeBody(runReq[1]), "ErrWorkflowExecuteFail"))
    /\ UNCHANGED runReq
    /\ UNCHANGED notRequestVars

CallCancel ==
    /\ runOut' =
          RunOutcome("Cancel",
                     DeferredRecover(CancelBody(runReq[1]), "ErrWorkflowExecuteFail"))
    /\ UNCHANGED runReq
    /\ UNCHANGED notRequestVars

CallOpenAPIStreamResume ==
    /\ runOut' =
          RunOutcome("OpenAPIStreamResume",
                     DeferredRecover(OpenAPIStreamResumeBody(runReq[1]),
                                     "ErrWorkflowExecuteFail"))
    /\ UNCHANGED runReq
    /\ UNCHANGED notRequestVars

NextRun ==
    \/ CallTestRun
    \/ CallNodeDebug
    \/ CallOpenAPIRun
    \/ CallOpenAPIStreamRun
    \/ CallBatchDeleteWorkflow
    \/ CallTestResume
    \/ CallCancel
    \/ CallOpenAPIStreamResume

SpecRun == InitRun /\ [][NextRun]_vars

(***************************************************************************)
(* SpecLife: one test run from its creation to its end, with the engine    *)
(* scheduling its nodes, and clients that cancel and resume executions.    *)
(***************************************************************************)
\* the requests to test run a workflow: with or without ids
TestRunRequests ==
    {r \in RunFlowRequests :
        /\ r.member /\ ~r.IsAsync /\ r.AppID = Nil /\ r.LatestPublishedVersion = Nil
        /\ r.SpaceID = <<"7">> /\ r.WorkflowID = <<"7">>
        /\ r.ProjectID \in {Nil, Some(<<"7">>)} /\ r.BotID \in {Nil, Some(<<"7">>)}}

\* TestRun: AsyncExecute creates the execution, Running, and returns; the
\* engine schedules its nodes from then on
TestRun ==
    \E r \in TestRunRequests :
        LET ret == DeferredRecover(TestRunBody(r), "ErrWorkflowExecuteFail") IN
        /\ IF ret.call = Nil
           THEN /\ apiResp' = Answer("TestRun", <<>>, ret.err, 0)
                /\ UNCHANGED <<exes, sched>>
           ELSE /\ Created = {}
                /\ CreateExecution(NextExecutionID, "Running")
                /\ sched' = [NoSched EXCEPT !.exe = NextExecutionID]
                /\ apiResp' = Answer("TestRun", <<>>, NilError, NextExecutionID)
        /\ UNCHANGED <<consumed, stream>>
        /\ UNCHANGED streamVars
        /\ UNCHANGED processVars
        /\ UNCHANGED notSchedVars

\* a variant of the domain service that loses the signal
CancelSignalLost(executeID) == sched

\* Cancel of the domain service: signals the execution if it is running
CancelSignal(executeID) ==
    IF executeID = sched.exe /\ exes[executeID].status = "Running"
    THEN [sched EXCEPT !.signal = TRUE]
    ELSE sched

\* the error Cancel returns, NilError if none
CancelError(member, executeID) ==
    IF ~member THEN NoAccessError
    ELSE IF ~ParseInt(executeID).ok THEN NewPanicErr("strconv.ParseInt: invalid syntax")
    ELSE NilError

\* the requests to cancel an execution: of a member of the space with any
\* id, and one of a user who is no member
CancelRequests ==
    {r \in [member : BOOLEAN, executeID : NumberStrings] :
        r.member \/ r.executeID = <<"1">>}

Cancel ==
    \E r \in CancelRequests :
        LET err == CancelError(r.member, r.executeID) IN
        /\ apiResp' = Answer("Cancel", r.executeID, err, 0)
        /\ sched' = IF err = NilError THEN CancelSignal(ParseInt(r.executeID).val) ELSE sched
        /\ UNCHANGED <<exes, consumed, stream>>
        /\ UNCHANGED streamVars
        /\ UNCHANGED processVars
        /\ UNCHANGED notSchedVars

\* the execution of the test run is running
Scheduled == sched.exe # 0 /\ exes[sched.exe].status = "Running"

\* the nodes that are executing a step: those that run, and the suspended
\* one once the execution was resumed
Executing ==
    {n \in ChainNodes :
        \/ sched.nodes[n] = "Running"
        \/ sched.nodes[n] = "Suspended" /\ Scheduled}

\* what the step of a node can end in: the node completes, fails, or asks
\* for an interrupt
StepOutcomes == {"Success", "Failed", "Asking"}

\* the step of an executing node ends; nothing ends it before
EngineNodeDone ==
    /\ Scheduled
    /\ \E n \in Executing, outcome \in StepOutcomes :
          /\ outcome = "Asking" => exes[sched.exe].lastEvent < MaxEvent
          /\ sched' = [sched EXCEPT !.nodes[n] = outcome]
    /\ apiResp' = NoRequest
    /\ UNCHANGED <<exes, consumed, stream>>
    /\ UNCHANGED streamVars
    /\ UNCHANGED processVars
    /\ UNCHANGED notSchedVars

\* a variant that schedules nodes that have completed as well
RunnableAgain ==
    {n \in ChainNodes : sched.nodes[n] \in {"Waiting", "Success"}}

\* the nodes that can start: those waiting of which the predecessors have
\* completed
Runnable ==
    {n \in ChainNodes :
        /\ sched.nodes[n] = "Waiting"
        /\ \A m \in 1..(n - 1) : sched.nodes[m] = "Success"}

\* a variant in which the signal stops a node in the middle of its step
AtBoundaryOrSignalled == Scheduled /\ (Executing = {} \/ sched.signal)

\* the execution is at a node boundary: no node is in the middle of a step
AtBoundary == Scheduled /\ Executing = {}

\* the checkpoint at a node boundary: the engine looks at the cancel signal
\* first, then at what the node that ended asked for, and starts the next
\* node if the execution goes on
EngineCheckpoint ==
    /\ AtBoundary
    /\ LET e == sched.exe
           asking == {n \in ChainNodes : sched.nodes[n] = "Asking"} IN
       IF sched.signal
       THEN /\ exes' = [exes EXCEPT ![e].status = "Cancelled", ![e].pending = 0]
            /\ UNCHANGED sched
       ELSE IF \E n \in ChainNodes : sched.nodes[n] = "Failed"
       THEN /\ exes' = [exes EXCEPT ![e].status = "Failed"]
            /\ UNCHANGED sched
       ELSE IF asking # {}
       THEN /\ exes' = [exes EXCEPT ![e] =
                          [status |-> "Interrupted", pending |-> exes[e].lastEvent + 1,
                           lastEvent |-> exes[e].lastEvent + 1]]
            /\ sched' = [sched EXCEPT !.nodes =
                           [n \in ChainNodes |->
                              IF n \in asking THEN "Suspended" ELSE sched.nodes[n]]]
       ELSE IF Runnable = {}
       THEN /\ exes' = [exes EXCEPT ![e].status = "Success"]
            /\ UNCHANGED sched
       ELSE /\ \E n \in Runnable : sched' = [sched EXCEPT !.nodes[n] = "Running"]
            /\ UNCHANGED exes
    /\ apiResp' = NoRequest
    /\ UNCHANGED <<consumed, stream>>
    /\ UNCHANGED streamVars
    /\ UNCHANGED processVars
    /\ UNCHANGED notSchedVars

InitLife ==
    /\ ProcessIdle
    /\ StreamStart
    /\ EngineIdle
    /\ SideIdle

NextLife ==
    \/ TestRun
    \/ Cancel
    \/ TestResume
    \/ EngineNodeDone
    \/ EngineCheckpoint

SpecLife == InitLife /\ [][NextLife]_vars

\* the engine runs the execution independently of the callers, and the step
\* of a node ends
FairLife == WF_vars(EngineNodeDone) /\ WF_vars(EngineCheckpoint)

SpecLifeFair == SpecLife /\ FairLife

(***************************************************************************)
(* SpecVersion: the draft and the versions of one workflow under any       *)
(* sequence of SaveWorkflow, PublishWorkflow, GetCanvasInfo and            *)
(* GetWorkflowDetailInfo.                                                  *)
(***************************************************************************)
\* the ids of the workflow in a request: its id, and a string that is no
\* number
WorkflowIDStrings == {<<"7">>, <<"x">>}

\* the error an operation on the workflow returns before it calls the domain
\* service, NilError if none
AccessError(member, workflowID) ==
    IF ~member THEN NoAccessError
    ELSE IF ~ParseInt(workflowID).ok THEN NewPanicErr("strconv.ParseInt: invalid syntax")
    ELSE NilError

\* the code of the error an operation on the workflow answers with
OperationFail(err) == WrapIfNeeded("ErrWorkflowOperationFail", err).code

\* the requests on the workflow: of a member of the space with any id, and
\* one of a user who is no member
AccessRequests ==
    {r \in [member : BOOLEAN, WorkflowID : WorkflowIDStrings] :
        r.member \/ r.WorkflowID = <<"7">>}

\* the variables the operations on the workflow leave alone
notVersionVars == <<wfExeEntity, processResp, converter, events, nilItems, panicked,
                    handled, lastMsg, exes, consumed, stream, apiResp, runReq, runOut, sched,
                    icon, ownVars>>

\* Save of the domain service: the schema becomes the draft
SaveDraft(schema) == [store EXCEPT !.draft = schema]

SaveWorkflow ==
    \E r \in AccessRequests, schema \in Schemas :
        LET err == AccessError(r.member, r.WorkflowID) IN
        /\ verOut' = [op |-> "SaveWorkflow", err |-> OperationFail(err),
                      version |-> "", schema |-> ""]
        /\ IF err = NilError
           THEN /\ store' = SaveDraft(schema)
                /\ seen' = [seen EXCEPT !.saved = Some(schema)]
           ELSE UNCHANGED <<store, seen>>
        /\ UNCHANGED notVersionVars

VersionExists == PlainError("version already exists")

\* a variant that publishes over a version that exists
PublishedOver(version) == [store EXCEPT !.versions = MapPut(store.versions, version, store.draft)]

\* Publish of the domain service: the draft becomes the snapshot of a
\* version that does not exist yet
Published(version) ==
    IF version \in DOMAIN store.versions THEN store
    ELSE [store EXCEPT !.versions = MapPut(store.versions, version, store.draft)]

PublishWorkflow ==
    \E r \in AccessRequests, version \in Versions :
        LET access == AccessError(r.member, r.WorkflowID)
            err == IF access # NilError THEN access
                   ELSE IF Published(version) = store THEN VersionExists
                   ELSE NilError IN
        /\ verOut' = [op |-> "PublishWorkflow", err |-> OperationFail(err),
                      version |-> IF err = NilError THEN version ELSE "", schema |-> ""]
        /\ store' = IF access = NilError THEN Published(version) ELSE store
        /\ UNCHANGED seen
        /\ UNCHANGED notVersionVars

\* GetCanvasInfo: Get of the domain service with QType FromDraft
GetCanvasInfo ==
    \E r \in AccessRequests :
        LET err == AccessError(r.member, r.WorkflowID) IN
        /\ verOut' = [op |-> "GetCanvasInfo", err |-> OperationFail(err), version |-> "",
                      schema |-> IF err = NilError THEN store.draft ELSE ""]
        /\ UNCHANGED <<store, seen>>
        /\ UNCHANGED notVersionVars

VersionNotFound == PlainError("workflow version not found")

\* GetWorkflowDetailInfo of a version: MGet of the domain service with QType
\* FromSpecificVersion
GetWorkflowDetailInfo ==
    \E r \in AccessRequests, version \in Versions :
        LET access == AccessError(r.member, r.WorkflowID)
            err == IF access # NilError THEN access
                   ELSE IF version \notin DOMAIN store.versions THEN VersionNotFound
                   ELSE NilError IN
        /\ verOut' = [op |-> "GetWorkflowDetailInfo", err |-> OperationFail(err),
                      version |-> IF err = NilError THEN version ELSE "",
                      schema |-> IF err = NilError THEN store.versions[version] ELSE ""]
        /\ seen' = IF err = NilError /\ version \notin DOMAIN seen.first
                   THEN [seen EXCEPT !.first = MapPut(seen.first, version, store.versions[version])]
                   ELSE seen
        /\ UNCHANGED store
        /\ UNCHANGED notVersionVars

InitVersion ==
    /\ ProcessIdle
    /\ StreamStart
    /\ EngineIdle
    /\ SideIdle

NextVersion ==
    \/ SaveWorkflow
    \/ PublishWorkflow
    \/ GetCanvasInfo
    \/ GetWorkflowDetailInfo

SpecVersion == InitVersion /\ [][NextVersion]_vars

(***************************************************************************)
(* SpecCache: the goroutines of InitNodeIconURLCache and the requests that *)
(* read the node icon URL cache, step by step.                             *)
(***************************************************************************)
\* the variables the accesses to the cache leave alone
notCacheVars == <<wfExeEntity, processResp, converter, events, nilItems, panicked,
                  handled, lastMsg, exes, consumed, stream, apiResp, runReq, runOut, sched,
                  store, seen, verOut, ownVars>>

URLOf(w) == <<"u">> \o Itoa(w)

\* the goroutine of a node meta without IconURI, or of which the object URL
\* cannot be got, returns without a write
WriterSkip(w) ==
    /\ ~icon.fatal
    /\ icon.wpc[w] = "start"
    /\ icon' = [icon EXCEPT !.wpc[w] = "done"]
    /\ UNCHANGED notCacheVars

\* nodeIconURLCacheMu.Lock()
WriterLock(w) ==
    /\ ~icon.fatal
    /\ icon.wpc[w] = "start"
    /\ icon.mu = 0
    /\ icon' = [icon EXCEPT !.mu = w, !.wpc[w] = "locked"]
    /\ UNCHANGED notCacheVars

\* the readers that are in the middle of a lookup
Reading == {r \in Readers : icon.rpc[r] = "reading"}

\* the writers that are in the middle of the map assignment
Writing == {w \in Writers : icon.wpc[w] = "writing"}

\* nodeIconURLCache[nodeTypeStr] = url begins: the assignment is no single
\* step of the machine
WriteBegin(w) ==
    /\ ~icon.fatal
    /\ icon.wpc[w] = "locked"
    /\ icon' = [icon EXCEPT !.wpc[w] = "writing",
                            !.raced = [r \in Readers |-> @[r] \/ r \in Reading]]
    /\ UNCHANGED notCacheVars

\* the assignment ends
WriteEnd(w) ==
    /\ ~icon.fatal
    /\ icon.wpc[w] = "writing"
    /\ icon' = [icon EXCEPT !.wpc[w] = "written",
                            !.cache = MapPut(@, NodeTypeOf(w), URLOf(w))]
    /\ UNCHANGED notCacheVars

\* nodeIconURLCacheMu.Unlock()
WriterUnlock(w) ==
    /\ ~icon.fatal
    /\ icon.wpc[w] = "written"
    /\ icon' = [icon EXCEPT !.mu = 0, !.wpc[w] = "done"]
    /\ UNCHANGED notCacheVars

\* url := nodeIconURLCache[string(nodeType)] begins in GetNodeTemplateList or
\* GetProcess: the reader takes no lock
ReadBegin(r) ==
    /\ ~icon.fatal
    /\ icon.rpc[r] = "start"
    /\ \E w \in Writers :
          icon' = [icon EXCEPT !.rpc[r] = "reading", !.key[r] = NodeTypeOf(w),
                               !.raced[r] = Writing # {}]
    /\ UNCHANGED notCacheVars

\* what a lookup of key k in the map returns when no write runs beside it
Lookup(k) == IF k \in DOMAIN icon.cache THEN icon.cache[k] ELSE NoURL

\* what a lookup can return when a write ran beside it: any string the map
\* held or is being given
RacedLookups == {NoURL} \cup {URLOf(w) : w \in Writers}

\* the lookup ends: it returns the value of the key; after a write that ran
\* beside it the value is any, or the runtime stops the process ("fatal
\* error: concurrent map read and map write")
ReadEnd(r) ==
    /\ ~icon.fatal
    /\ icon.rpc[r] = "reading"
    /\ IF icon.raced[r]
       THEN \/ \E u \in RacedLookups :
                  icon' = [icon EXCEPT !.rpc[r] = "done", !.got[r] = u]
            \/ icon' = [icon EXCEPT !.fatal = TRUE]
       ELSE icon' = [icon EXCEPT !.rpc[r] = "done", !.got[r] = Lookup(icon.key[r])]
    /\ UNCHANGED notCacheVars

InitCache ==
    /\ ProcessIdle
    /\ StreamStart
    /\ EngineIdle
    /\ SideIdle

NextCache ==
    \/ \E w \in Writers : WriterSkip(w)
    \/ \E w \in Writers : WriterLock(w)
    \/ \E w \in Writers : WriteBegin(w)
    \/ \E w \in Writers : WriteEnd(w)
    \/ \E w \in Writers : WriterUnlock(w)
    \/ \E r \in Readers : ReadBegin(r)
    \/ \E r \in Readers : ReadEnd(r)

SpecCache == InitCache /\ [][NextCache]_vars

(***************************************************************************)
(* SpecDag: the scheduler runs the nodes of one canvas.  The canvas is any *)
(* directed acyclic graph over DagNodes; the nodes are numbered in a       *)
(* topological order, so every edge leads from a smaller to a larger       *)
(* number.                                                                 *)
(***************************************************************************)
\* the edges a canvas may hold
DagEdges == {e \in DagNodes \X DagNodes : e[1] < e[2]}

\* the source nodes of the inbound edges of node n
Sources(n) == {m \in DagNodes : <<m, n>> \in dag.edges}

\* a variant that starts a node once one of its sources has completed
RunnableOnAnySource(n) ==
    /\ dag.nodes[n] = "Waiting"
    /\ Sources(n) # {} => \E m \in Sources(n) : dag.nodes[m] = "Success"

\* a node becomes runnable once all of its inbound edges' source nodes have
\* completed
DagRunnable(n) ==
    /\ dag.nodes[n] = "Waiting"
    /\ \A m \in Sources(n) : dag.nodes[m] = "Success"

\* the execution has failed: a node of it did
DagFailed == \E n \in DagNodes : dag.nodes[n] = "Failed"

\* the variables the scheduler leaves alone
notDagVars == <<baseVars, debug, detail, login, plugins>>

\* the scheduler starts a runnable node, whatever other nodes are running
DagNodeStart ==
    /\ ~DagFailed
    /\ \E n \in DagNodes :
          /\ DagRunnable(n)
          /\ dag' = [dag EXCEPT !.nodes[n] = "Running"]
    /\ UNCHANGED notDagVars

\* a running node completes or fails
DagNodeDone ==
    /\ \E n \in DagNodes, outcome \in {"Success", "Failed"} :
          /\ dag.nodes[n] = "Running"
          /\ dag' = [dag EXCEPT !.nodes[n] = outcome]
    /\ UNCHANGED notDagVars

InitDag ==
    /\ ProcessIdle
    /\ StreamStart
    /\ EngineIdle
    /\ RequestIdle
    /\ SchedIdle
    /\ VersionIdle
    /\ CacheIdle
    /\ DebugIdle
    /\ DetailIdle
    /\ LoginIdle
    /\ PluginIdle
    /\ dag \in [edges : SUBSET DagEdges, nodes : {NoDag.nodes}]

NextDag ==
    \/ DagNodeStart
    \/ DagNodeDone

SpecDag == InitDag /\ [][NextDag]_vars

(***************************************************************************)
(* SpecDebug: NodeDebug on any request with input, batch and setting maps. *)
(***************************************************************************)
\* the keys and the values of the maps of a request
InputKeys == {Itoa(k) : k \in 1..MaxKeys}

InputValues == {"x", "y"}

\* the map[string]string values over these keys
StringMaps == UNION {[ks -> InputValues] : ks \in SUBSET InputKeys}

\* the requests: of a member of the space with any maps, of a user who is no
\* member, and one with project_id and bot_id both set
NodeDebugRequests ==
    {r \in [member : BOOLEAN, SpaceID : {<<"7">>}, WorkflowID : {<<"7">>},
            ProjectID : IDOpts, BotID : {Nil, Some(<<"7">>)},
            Input : StringMaps, Batch : StringMaps, Setting : StringMaps] :
        \/ (r.member /\ r.ProjectID = Nil /\ r.BotID = Nil)
        \/ (r.Input = r.Batch /\ r.Batch = r.Setting /\ DOMAIN r.Input = InputKeys)}

\* a variant of the loop in which a key the map holds keeps its value
PutAllAbsent(m, src) ==
    [k \in DOMAIN m \cup DOMAIN src |-> IF k \in DOMAIN m THEN m[k] ELSE src[k]]

\* for k, v := range src { m[k] = v }
PutAll(m, src) ==
    [k \in DOMAIN m \cup DOMAIN src |-> IF k \in DOMAIN src THEN src[k] ELSE m[k]]

\* mergedInput of NodeDebug
MergedInput(req) == PutAll(PutAll(PutAll(EmptyMap, req.Input), req.Batch), req.Setting)

\* maps.ToAnyValue: the same keys, each value as an interface value of
\* dynamic type string
ToAnyValue(m) == [k \in DOMAIN m |-> [type |-> "string", value |-> m[k]]]

\* NodeDebug: what it returns, and the call of AsyncExecuteNode with its input
NodeDebug(req) ==
    LET body == DeferredRecover(NodeDebugBody(req), "ErrWorkflowExecuteFail") IN
    [err |-> body.err,
     call |-> IF body.call = Nil THEN Nil
              ELSE Some([op |-> body.call[1].op, cfg |-> body.call[1].cfg,
                         input |-> ToAnyValue(MergedInput(req))])]

CallNodeDebugInput ==
    /\ debug.out = Nil
    /\ debug' = [debug EXCEPT !.out = Some(NodeDebug(debug.req[1]))]
    /\ UNCHANGED <<baseVars, dag, detail, login, plugins>>

InitDebug ==
    /\ ProcessIdle
    /\ StreamStart
    /\ EngineIdle
    /\ RequestIdle
    /\ SchedIdle
    /\ VersionIdle
    /\ CacheIdle
    /\ DagIdle
    /\ DetailIdle
    /\ LoginIdle
    /\ PluginIdle
    /\ debug \in [req : {Some(r) : r \in NodeDebugRequests}, out : {Nil}]

NextDebug == CallNodeDebugInput

SpecDebug == InitDebug /\ [][NextDebug]_vars

(***************************************************************************)
(* SpecDetail: GetWorkflowDetailInfo on any filter list over two workflows *)
(* that both have a draft and the versions "v1" and "v2".                  *)
(***************************************************************************)
\* the workflow ids a filter may name, and a string that is no number
FilterIDStrings == {<<"7">>, <<"8">>, <<"x">>}

\* the versions a filter may name: none, the empty string, or a version
FilterVersions == {Nil, Some(""), Some("v1"), Some("v2")}

WorkflowFilters == [WorkflowID : FilterIDStrings, WorkflowVersion : FilterVersions]

\* the requests: of a member of the space with any filter list, and one of a
\* user who is no member
DetailRequests ==
    {r \in [member : BOOLEAN, FilterList : SeqsUpTo(WorkflowFilters, MaxFilters)] :
        r.member \/ r.FilterList = <<>>}

\* the first loop: the ids to read as draft, the ids to read as a version,
\* and the version of each of the latter; err is set if an id is no number
FilterLoopStart == [draftIDs |-> <<>>, versionIDs |-> <<>>, id2Version |-> EmptyMap, err |-> FALSE]

FilterStep(st, wf) ==
    LET id == ParseInt(wf.WorkflowID) IN
    IF st.err \/ ~id.ok THEN [st EXCEPT !.err = TRUE]
    ELSE IF wf.WorkflowVersion = Nil \/ wf.WorkflowVersion[1] = ""
    THEN [st EXCEPT !.draftIDs = Append(@, id.val)]
    ELSE [st EXCEPT !.versionIDs = Append(@, id.val),
                    !.id2Version = MapPut(@, id.val, wf.WorkflowVersion[1])]

RECURSIVE FilterLoop(_, _)
FilterLoop(st, filters) ==
    IF filters = <<>> THEN st
    ELSE FilterLoop(FilterStep(st, Head(filters)), Tail(filters))

\* the workflow with this id as the domain service resolves it: from its
\* draft (version ""), or from a version.  The input parameters tell the
\* resolutions apart.
ResolvedWorkflow(id, version) ==
    [ID |-> id, VersionMeta |-> IF version = "" THEN Nil ELSE Some(version),
     InputParams |-> <<Itoa(id), version>>]

RECURSIVE Distinct(_)
\* the ids of a list without repetitions, in the order of their first
\* occurrence
Distinct(ids) ==
    IF ids = <<>> THEN <<>>
    ELSE LET front == Distinct(SubSeq(ids, 1, Len(ids) - 1))
             last == ids[Len(ids)]
         IN  IF \E i \in 1..Len(front) : front[i] = last THEN front ELSE Append(front, last)

\* MGet of the domain service: one workflow per id, resolved from the draft
\* or from the version the policy gives for the id.  Whether an id listed
\* twice is returned twice is not specified: perRow tells.
MGet(ids, versions, perRow) ==
    LET asked == IF perRow THEN Distinct(ids) ELSE ids IN
    [i \in 1..Len(asked) |->
        ResolvedWorkflow(asked[i],
                         IF asked[i] \in DOMAIN versions THEN versions[asked[i]] ELSE "")]

\* one entry of the list of the response
WorkflowDetailInfoData(wf) ==
    [WorkflowID |-> Itoa(wf.ID),
     FlowVersion |-> IF wf.VersionMeta # Nil THEN wf.VersionMeta[1] ELSE ""]

RECURSIVE InputsOf(_)
\* the second loop: inputs[wfIDStr] = ... for every workflow, in order
InputsOf(wfs) ==
    IF wfs = <<>> THEN EmptyMap
    ELSE MapPut(InputsOf(SubSeq(wfs, 1, Len(wfs) - 1)),
                Itoa(wfs[Len(wfs)].ID), wfs[Len(wfs)].InputParams)

\* GetWorkflowDetailInfo on a filter list
DetailInfo(req, perRow) ==
    IF ~req.member THEN [err |-> OperationFail(NoAccessError), List |-> <<>>, Inputs |-> EmptyMap]
    ELSE LET st == FilterLoop(FilterLoopStart, req.FilterList) IN
         IF st.err
         THEN [err |-> OperationFail(PlainError("strconv.ParseInt: invalid syntax")),
               List |-> <<>>, Inputs |-> EmptyMap]
         ELSE LET wfs == MGet(st.draftIDs, EmptyMap, perRow)
                           \o MGet(st.versionIDs, st.id2Version, perRow) IN
              [err |-> "",
               List |-> [i \in 1..Len(wfs) |-> WorkflowDetailInfoData(wfs[i])],
               Inputs |-> InputsOf(wfs)]

GetWorkflowDetailInfoList ==
    /\ detail.out = Nil
    /\ \E perRow \in BOOLEAN :
          detail' = [detail EXCEPT !.out = Some(DetailInfo(detail.req[1], perRow))]
    /\ UNCHANGED <<baseVars, dag, debug, login, plugins>>

InitDetail ==
    /\ ProcessIdle
    /\ StreamStart
    /\ EngineIdle
    /\ RequestIdle
    /\ SchedIdle
    /\ VersionIdle
    /\ CacheIdle
    /\ DagIdle
    /\ DebugIdle
    /\ LoginIdle
    /\ PluginIdle
    /\ detail \in [req : {Some(r) : r \in DetailRequests}, out : {Nil}]

NextDetail == GetWorkflowDetailInfoList

SpecDetail == InitDetail /\ [][NextDetail]_vars

(***************************************************************************)
(* SpecLogin: concurrent CheckLoginStatusPost requests, step by step: each *)
(* call of the external service and of the user service is one step, and   *)
(* the steps of the requests interleave.                                   *)
(***************************************************************************)
\* the tokens a request may carry, and what the external service may answer
\* for a token: an error (Nil), or a response with this account
Tokens == {"", "t"}

Accounts == {"", "a", "b"}

notLoginVars == <<baseVars, dag, debug, detail, plugins>>

\* the response of internalServerErrorResponse: no cookie
InternalServerError(req) == [req EXCEPT !.pc = "done", !.status = 500]

\* the response after a login or a registration that succeeded: the session
\* cookie and the answer of the user service
SessionResponse(req, sessionKey) ==
    [req EXCEPT !.pc = "done", !.status = 200, !.cookie = Some(sessionKey)]

\* the session key the user service issues
SessionKeyOf(r, account) == <<"session", account, r>>

\* lines 105-128: bind the body, check the token, ask the external service
CheckLoginApi(r) ==
    /\ login.reqs[r].pc = "start"
    /\ \E token \in Tokens, info \in {Nil} \cup {Some(a) : a \in Accounts} :
          LET req == [login.reqs[r] EXCEPT !.ctx = token] IN
          login' = [login EXCEPT !.reqs[r] =
                      IF token = "" THEN InternalServerError(req)
                      ELSE IF info = Nil THEN InternalServerError(req)
                      ELSE IF info[1] = "" THEN InternalServerError(req)
                      ELSE [req EXCEPT !.pc = "validated", !.account = info[1]]]
    /\ UNCHANGED notLoginVars

\* PassportWebEmailLoginPost of the user service: fails if the user does not
\* exist, and may fail if it does
LoginResults(account) == IF account \in login.users THEN {"ok", "failed"} ELSE {"failed"}

\* lines 130-143 and 170-178: log in with the fixed password
PassportWebEmailLoginPost(r) ==
    /\ login.reqs[r].pc = "validated"
    /\ \E result \in LoginResults(login.reqs[r].account) :
          LET req == [login.reqs[r] EXCEPT !.login = result] IN
          login' = [login EXCEPT !.reqs[r] =
                      IF result = "failed" THEN [req EXCEPT !.pc = "loginFailed"]
                      ELSE SessionResponse(req, SessionKeyOf(r, req.account))]
    /\ UNCHANGED notLoginVars

\* PassportWebEmailRegisterV2 of the user service: fails if the user exists,
\* and may fail if it does not
RegisterResults(account) == IF account \in login.users THEN {"failed"} ELSE {"ok", "failed"}

\* a variant that answers a failed registration like one that succeeded
AfterRegisterAlways(req, r) == SessionResponse(req, SessionKeyOf(r, req.account))

\* lines 152-167: the response after the registration
AfterRegister(req, r) ==
    IF req.register = "failed" THEN InternalServerError(req)
    ELSE SessionResponse(req, SessionKeyOf(r, req.account))

\* lines 143-168: the login failed, register the user
PassportWebEmailRegisterV2(r) ==
    /\ login.reqs[r].pc = "loginFailed"
    /\ \E result \in RegisterResults(login.reqs[r].account) :
          login' = [login EXCEPT
                      !.users = IF result = "ok" THEN @ \cup {login.reqs[r].account} ELSE @,
                      !.reqs[r] = AfterRegister([login.reqs[r] EXCEPT !.register = result], r)]
    /\ UNCHANGED notLoginVars

InitLogin ==
    /\ ProcessIdle
    /\ StreamStart
    /\ EngineIdle
    /\ RequestIdle
    /\ SchedIdle
    /\ VersionIdle
    /\ CacheIdle
    /\ DagIdle
    /\ DebugIdle
    /\ DetailIdle
    /\ PluginIdle
    /\ login \in [users : SUBSET (Accounts \ {""}), reqs : {[r \in LoginRequests |-> NoLogin]}]

NextLogin ==
    \/ \E r \in LoginRequests : CheckLoginApi(r)
    \/ \E r \in LoginRequests : PassportWebEmailLoginPost(r)
    \/ \E r \in LoginRequests : PassportWebEmailRegisterV2(r)

SpecLogin == InitLogin /\ [][NextLogin]_vars

(***************************************************************************)
(* SpecPlugin: loadPluginProductMeta over any list of plugin metadata, one *)
(* iteration of its loop at a time.                                        *)
(***************************************************************************)
\* the plugin ids and the tool ids the metadata may name
PluginIDs == {0, 1, 2, 4}

ToolIDs == {1, 2, 3}

\* the tools of an entry: usable, deprecated, or without a valid operation
\* (OpValid stands for the API being in the OpenAPI document and its
\* operation being valid)
ToolMetas ==
    {t \in [ToolID : ToolIDs, Deprecated : BOOLEAN, OpValid : BOOLEAN] :
        ~t.Deprecated \/ t.OpValid}

\* the entries of the metadata file: without a defect, or with one of them.
\* DocValid stands for the manifest and the OpenAPI document being valid.
PluginMetas ==
    {m \in [PluginID : PluginIDs, Deprecated : BOOLEAN, VersionValid : BOOLEAN,
            IsPlugin : BOOLEAN, DocValid : BOOLEAN, Tools : SeqsUpTo(ToolMetas, MaxTools)] :
        Cardinality({f \in {"Deprecated", "VersionValid", "IsPlugin", "DocValid"} :
                        m[f] = (f = "Deprecated")}) <= 1}

\* checkPluginMetaInfo
checkPluginMetaInfo(m, toolProducts) ==
    /\ ~m.Deprecated
    /\ m.VersionValid
    /\ m.PluginID > 0
    /\ m.PluginID \notin DOMAIN toolProducts
    /\ m.IsPlugin

\* a variant that loads a tool whatever tools are loaded
ToolLoadableAgain(t, toolProducts) ==
    /\ ~t.Deprecated
    /\ t.OpValid

\* the tool passes the checks of the inner loop
ToolLoadable(t, toolProducts) ==
    /\ ~t.Deprecated
    /\ t.ToolID \notin DOMAIN toolProducts
    /\ t.OpValid

RECURSIVE LoadTools(_, _, _)
\* the inner loop: the tool ids of the plugin and toolProducts after the
\* tools of the entry
LoadTools(st, pluginID, tools) ==
    IF tools = <<>> THEN st
    ELSE LET t == Head(tools) IN
         LoadTools(IF ToolLoadable(t, st.toolProducts)
                   THEN [ToolIDs |-> Append(st.ToolIDs, t.ToolID),
                         toolProducts |-> MapPut(st.toolProducts, t.ToolID,
                                                 [ID |-> t.ToolID, PluginID |-> pluginID])]
                   ELSE st,
                   pluginID, Tail(tools))

\* one iteration of the outer loop on entry m
LoadPluginMeta(p, m) ==
    IF ~checkPluginMetaInfo(m, p.toolProducts) \/ ~m.DocValid
         \/ m.PluginID \in DOMAIN p.pluginProducts
    THEN p
    ELSE LET st == LoadTools([ToolIDs |-> <<>>, toolProducts |-> p.toolProducts],
                             m.PluginID, m.Tools) IN
         [p EXCEPT !.toolProducts = st.toolProducts,
                   !.pluginProducts =
                       IF Len(st.ToolIDs) = 0 THEN MapDelete(@, m.PluginID)
                       ELSE MapPut(@, m.PluginID, [ID |-> m.PluginID, ToolIDs |-> st.ToolIDs])]

\* the number of a plugin id in a count, and the count with one more
CountOf(count, id) == IF id \in DOMAIN count THEN count[id] ELSE 0

Counted(count, id) == MapPut(count, id, CountOf(count, id) + 1)

\* the entry gets as far as the check for a plugin id that is loaded
\* already, and fails it
DuplicatePlugin(p, m) ==
    /\ checkPluginMetaInfo(m, p.toolProducts)
    /\ m.DocValid
    /\ m.PluginID \in DOMAIN p.pluginProducts

notPluginVars == <<baseVars, dag, debug, detail, login>>

\* the loop reads the next entry of the file
LoadNextPluginMeta ==
    /\ ~plugins.returned
    /\ \E m \in PluginMetas :
          LET after == LoadPluginMeta(plugins, m)
              loaded == /\ after # plugins
                        /\ m.PluginID \in DOMAIN after.pluginProducts IN
          plugins' = [after EXCEPT !.duplicate = IF DuplicatePlugin(plugins, m)
                                                  THEN @ \cup {m.PluginID} ELSE @,
                                   !.kept = IF loaded THEN Counted(@, m.PluginID) ELSE @]
    /\ UNCHANGED notPluginVars

\* the file has no more entries: loadPluginProductMeta returns nil
LoadReturn ==
    /\ ~plugins.returned
    /\ plugins' = [plugins EXCEPT !.returned = TRUE]
    /\ UNCHANGED notPluginVars

InitPlugin ==
    /\ ProcessIdle
    /\ StreamStart
    /\ EngineIdle
    /\ RequestIdle
    /\ SchedIdle
    /\ VersionIdle
    /\ CacheIdle
    /\ DagIdle
    /\ DebugIdle
    /\ DetailIdle
    /\ LoginIdle
    /\ PluginIdle

NextPlugin ==
    \/ LoadNextPluginMeta
    \/ LoadReturn

SpecPlugin == InitPlugin /\ [][NextPlugin]_vars

(***************************************************************************)
(* Claims about GetProcess (checked under SpecProcess).                    *)
(***************************************************************************)
\* the positions of the NodeExecution with this node key in the execution
PositionsOf(key) ==
    {i \in 1..Len(wfExeEntity.NodeExecutions) : wfExeEntity.NodeExecutions[i].NodeID = key}

\* the execution holds batch-mode node "B": its batch-control shell and the
\* node generated inside it
HoldsBatchModeNode == PositionsOf("B") # {} /\ PositionsOf("B_inner") # {}

\* the number of iterations of batch-mode node "B"
IterationsOfB ==
    Len(wfExeEntity.NodeExecutions[CHOOSE i \in PositionsOf("B_inner") : TRUE].IndexedExecutions)

\* the returned NodeResults that stand for batch-mode node "B"
ResultsOfB ==
    {i \in 1..Len(processResp[1].NodeResults) :
        processResp[1].NodeResults[i].NodeId \in {"B", "B_inner"}}

MergedAsBatch(nr, n) ==
    /\ nr.NodeId = "B"
    /\ nr.IsBatch = Some(TRUE)
    /\ nr.Batch # Nil
    /\ Len(nr.Batch[1]) = n

\* C1: GetProcess over an execution that holds a batch-mode node with N
\* iterations returns exactly one NodeResult for the node, with IsBatch = true
\* and a batch array of N entries, in either order of the shell and the inner
\* NodeExecution.
C1_BatchMergedInEitherOrder ==
    (processResp # Nil /\ HoldsBatchModeNode) =>
        /\ Cardinality(ResultsOfB) = 1
        /\ \A i \in ResultsOfB : MergedAsBatch(processResp[1].NodeResults[i], IterationsOfB)

\* the same, only for executions that list the shell before the inner node
C1_ShellFirstMerged ==
    (processResp # Nil /\ HoldsBatchModeNode
       /\ \A i \in PositionsOf("B"), j \in PositionsOf("B_inner") : i < j) =>
        /\ Cardinality(ResultsOfB) = 1
        /\ \A i \in ResultsOfB : MergedAsBatch(processResp[1].NodeResults[i], IterationsOfB)

\* the execution holds exactly one half of batch-mode node "B"
HoldsHalfOfBatchModeNode == (PositionsOf("B") = {}) # (PositionsOf("B_inner") = {})

\* C11: a batch-mode node of which only one half (the shell or the inner
\* payload) is in the execution's node list does not appear in the returned
\* NodeResults.
C11_HalfBatchNodeHidden ==
    (processResp # Nil /\ HoldsHalfOfBatchModeNode) => ResultsOfB = {}

\* the same, only for executions that hold the inner payload without the shell
C11_InnerOnlyHidden ==
    (processResp # Nil /\ PositionsOf("B") = {} /\ PositionsOf("B_inner") # {})
        => ResultsOfB = {}

\* the NodeExecution with this node key in the execution
ExecutionOf(key) == wfExeEntity.NodeExecutions[CHOOSE i \in PositionsOf(key) : TRUE]

\* nr takes the fields of the first group from the result of NodeExecution
\* parent and those of the second group from the result of NodeExecution
\* inner.  The error info and the error level are left out: the fail reason
\* of the execution may overwrite them after the merge.
MergedFrom(nr, parent, inner) ==
    LET p == convertNodeExecution(parent)
        i == convertNodeExecution(inner) IN
    /\ nr.NodeId = p.NodeId
    /\ nr.NodeName = p.NodeName
    /\ nr.NodeStatus = p.NodeStatus
    /\ nr.Input = p.Input
    /\ nr.Output = p.Output
    /\ nr.NodeType = i.NodeType
    /\ nr.IsBatch = i.IsBatch
    /\ nr.Batch = i.Batch
    /\ nr.Extra = i.Extra

\* C22: the NodeResult GetProcess returns for a batch-mode node is merged
\* with the batch-control node's result as parent and the generated inner
\* node's result as inner: its id, name, status, input and output are those
\* of the batch-control node, and its type, IsBatch flag, batch array and
\* Extra are those of the inner node.
C22_MergedWithShellAsParent ==
    (processResp # Nil /\ HoldsBatchModeNode) =>
        \E i \in ResultsOfB :
            MergedFrom(processResp[1].NodeResults[i], ExecutionOf("B"), ExecutionOf("B_inner"))

\* the same, only for executions that list the shell before the inner node
C22_ShellFirstMergedWithShellAsParent ==
    (processResp # Nil /\ HoldsBatchModeNode
       /\ \A i \in PositionsOf("B"), j \in PositionsOf("B_inner") : i < j) =>
        \E i \in ResultsOfB :
            MergedFrom(processResp[1].NodeResults[i], ExecutionOf("B"), ExecutionOf("B_inner"))

\* the execution has failed with a fail reason and none of its
\* NodeExecutions is Failed with error info
FailReasonUnattached ==
    /\ wfExeEntity.Status = "Failed"
    /\ wfExeEntity.FailReason # Nil
    /\ \A i \in 1..Len(wfExeEntity.NodeExecutions) :
          ~(wfExeEntity.NodeExecutions[i].Status = "Failed"
              /\ wfExeEntity.NodeExecutions[i].ErrorInfo # Nil)

\* the positions of the returned NodeResults
ReturnedResults == 1..Len(processResp[1].NodeResults)

\* the returned results of nodes that executed: a synthesized result is the
\* only one without a node name
ExecutedResults == {i \in ReturnedResults : processResp[1].NodeResults[i].NodeName # ""}

\* the returned results the fail reason is attached to at error level
FailReasonCarriers ==
    {i \in ReturnedResults :
        /\ Some(processResp[1].NodeResults[i].ErrorInfo) = wfExeEntity.FailReason
        /\ processResp[1].NodeResults[i].ErrorLevel = "Error"}

\* the returned results of batch-control nodes of which the inner node is
\* not in the execution: GetProcess appends them after the fail reason is
\* attached
LeftOverResults ==
    {i \in ExecutedResults :
        /\ processResp[1].NodeResults[i].NodeId = "B"
        /\ PositionsOf("B_inner") = {}}

\* the error info of returned result i is that of the NodeExecution it was
\* converted from
ErrorInfoUnchanged(i) ==
    LET nr == processResp[1].NodeResults[i] IN
    /\ i \in ExecutedResults
    /\ nr.ErrorInfo = convertNodeExecution(ExecutionOf(nr.NodeId)).ErrorInfo
    /\ nr.ErrorLevel = convertNodeExecution(ExecutionOf(nr.NodeId)).ErrorLevel

\* the fail reason is attached to exactly one returned result, chosen by the
\* results in listing: the end node's result if the end node executed, the
\* only result of listing if it is alone and no start node, a synthesized end
\* node otherwise; and no other result has its error info changed
FailReasonAttachedBy(listing) ==
    IF FailReasonUnattached
    THEN /\ Cardinality(FailReasonCarriers) = 1
         /\ \A c \in FailReasonCarriers :
               /\ IF PositionsOf(ExitNodeKey) # {}
                  THEN c \in ExecutedResults
                         /\ processResp[1].NodeResults[c].NodeId = ExitNodeKey
                  ELSE IF Cardinality(listing) = 1
                            /\ \A i \in listing : processResp[1].NodeResults[i].NodeType # "Start"
                  THEN c \in listing
                  ELSE processResp[1].NodeResults[c]
                         = SynthesizedEndNode(wfExeEntity.FailReason[1])
               /\ \A i \in ReturnedResults \ {c} : ErrorInfoUnchanged(i)
    ELSE \A i \in ReturnedResults : ErrorInfoUnchanged(i)

\* C23: for a Failed execution with a fail reason and no NodeExecution that
\* is Failed with error info, GetProcess attaches the fail reason at error
\* level to exactly one returned NodeResult: the end node's result if the end
\* node executed; otherwise the only returned result when the returned
\* listing holds exactly one result of an executed node and it is not the
\* start node; otherwise a synthesized failed End-node result.  In every
\* other case no node's error info is changed.
C23_FailReasonOnOneResult ==
    processResp # Nil => FailReasonAttachedBy(ExecutedResults)

\* the same, with the listing taken as it is when the fail reason is
\* attached: before the left-over batch-control nodes are appended
C23_FailReasonByListingAtAttach ==
    processResp # Nil => FailReasonAttachedBy(ExecutedResults \ LeftOverResults)

(***************************************************************************)
(* Claims about convertStreamRunEvent (checked under SpecConvert).         *)
(***************************************************************************)
\* this step feeds the converter one message (lastMsg' is that message)
FedStep == handled' = handled + 1

\* the converter has seen a StateMessage with Status = Running
RootKnown == converter.executeID > 0

\* C4: once the converter has seen the first StateMessage with Status=Running,
\* the execution id of that message is the root and never changes, and every
\* later StateMessage or DataMessage with another execution id emits no event.
C4_RootFixedAndNestedDropped ==
    [][/\ (FedStep /\ ~RootKnown /\ lastMsg'.kind = "state" /\ lastMsg'.Status = "Running")
            => converter'.executeID = lastMsg'.ExecuteID
       /\ RootKnown => converter'.executeID = converter.executeID
       /\ (FedStep /\ RootKnown /\ lastMsg'.kind \in {"state", "data"}
             /\ lastMsg'.ExecuteID # converter.executeID)
            => events' = events]_vars

\* a message of a nested execution was fed after the root was known
C4_Witness ==
    /\ RootKnown
    /\ handled >= 2
    /\ lastMsg.kind = "data" /\ lastMsg.Type = "Answer"
    /\ lastMsg.ExecuteID # converter.executeID
    /\ events = <<>>

\* the message fed in this step is a StateMessage of the root execution
FedRootState(statuses) ==
    /\ FedStep
    /\ RootKnown
    /\ lastMsg'.kind = "state"
    /\ lastMsg'.ExecuteID = converter.executeID
    /\ lastMsg'.Status \in statuses

\* C7: for a StateMessage Failed or Cancelled of the root execution the
\* converter emits exactly one Error event with the code and message of the
\* last error if that is a typed workflow error, and otherwise raises a
\* fault (panics) and emits no event.
C7_ErrorEventOrFault ==
    [][FedRootState({"Failed", "Cancelled"}) =>
         IF lastMsg'.LastError.typed
         THEN /\ ~panicked'
              /\ Len(events') = Len(events) + 1
              /\ SubSeq(events', 1, Len(events)) = events
              /\ events'[Len(events')].Event = "Error"
              /\ events'[Len(events')].ErrorCode = Some(lastMsg'.LastError.Code)
              /\ events'[Len(events')].ErrorMessage = Some(lastMsg'.LastError.Msg)
         ELSE /\ panicked'
              /\ events' = events]_vars

\* an Error event was emitted for a cancelled root execution
C7_Witness ==
    /\ RootKnown
    /\ lastMsg.kind = "state" /\ lastMsg.Status = "Cancelled"
    /\ lastMsg.ExecuteID = converter.executeID
    /\ lastMsg.LastError.typed
    /\ events # <<>> /\ events[Len(events)].Event = "Error"

\* the sequence numbers of the Message events of node n, in emission order
RECURSIVE NodeSeqIDs(_, _)
NodeSeqIDs(evs, n) ==
    IF evs = <<>> THEN <<>>
    ELSE IF Head(evs).Event = "Message" /\ Head(evs).NodeID = Some(n)
    THEN <<Head(evs).NodeSeqID>> \o NodeSeqIDs(Tail(evs), n)
    ELSE NodeSeqIDs(Tail(evs), n)

\* C8: the Message events of the Answer chunks of one node carry the
\* sequence numbers 0, 1, 2, ... in emission order, whatever else is fed.
C8_PerNodeSequence ==
    \A n \in StreamNodeIDs :
        LET seqs == NodeSeqIDs(events, n)
        IN  \A k \in 1..Len(seqs) : seqs[k] = Some(Itoa(k - 1))

\* two chunks of one node around a chunk of another node were emitted
C8_Witness ==
    /\ Len(NodeSeqIDs(events, "n1")) = 2
    /\ Len(NodeSeqIDs(events, "n2")) = 1
    /\ events[2].NodeID = Some("n2")

\* C9: a DataMessage of kind FunctionCall or ToolResponse never emits a
\* client event and changes no per-node sequence number.
C9_NoFunctionCallOrToolResponse ==
    [][(FedStep /\ lastMsg'.kind = "data" /\ lastMsg'.Type \in {"FunctionCall", "ToolResponse"})
         => /\ events' = events
            /\ converter'.nodeID2Seq = converter.nodeID2Seq]_vars

\* a ToolResponse of the root execution was fed after an Answer of its node
C9_Witness ==
    /\ RootKnown
    /\ lastMsg.kind = "data" /\ lastMsg.Type = "ToolResponse"
    /\ lastMsg.ExecuteID = converter.executeID
    /\ lastMsg.NodeID \in DOMAIN converter.nodeID2Seq
    /\ Len(events) = 1

\* C10: the ids of the emitted client events are strictly increasing in
\* emission order.
C10_IdsIncrease ==
    \A i, j \in 1..Len(events) :
        i < j => /\ ParseInt(events[i].ID).ok
                 /\ ParseInt(events[j].ID).ok
                 /\ ParseInt(events[i].ID).val < ParseInt(events[j].ID).val

\* events were emitted around a dropped message
C10_Witness ==
    /\ Len(events) = 2
    /\ handled = 3

\* the emitted events carry the ids 0, 1, 2, ... in emission order, and the
\* converter has consumed as many ids as it has emitted events
IdsConsecutive ==
    /\ \A k \in 1..Len(events) : events[k].ID = Itoa(k - 1)
    /\ ~panicked => converter.messageID = Len(events)

C29_IdsConsecutiveForStateAndData == nilItems = 0 => IdsConsecutive

(***************************************************************************)
(* Claims about the run and resume operations (checked under Spec).        *)
(***************************************************************************)
\* this step answers a resume request
ResumeAnswered == apiResp'.op \in {"OpenAPIStreamResume", "TestResume"}

\* C2: a resume succeeds only if its event id is the id of the interrupt
\* pending for that execution, which it then consumes; a resume with any
\* other event id, one consumed before included, fails and changes nothing,
\* so that no interrupt event is consumed twice.
C2_ResumeOnlyPendingInterrupt ==
    [][ResumeAnswered =>
         IF apiResp'.err = ""
         THEN \E e \in RunIDs, v \in EventIDs :
                 /\ apiResp'.req = Itoa(e) \o <<"/">> \o Itoa(v)
                 /\ exes[e].status = "Interrupted"
                 /\ exes[e].pending = v
                 /\ <<e, v>> \notin consumed
                 /\ exes'[e].status = "Running"
                 /\ exes'[e].pending = 0
                 /\ consumed' = consumed \cup {<<e, v>>}
         ELSE UNCHANGED <<exes, consumed, stream, events>>]_vars

\* the second interrupt of execution 1 was resumed after its first one
C2_Witness ==
    /\ apiResp.op = "OpenAPIStreamResume"
    /\ apiResp.err = ""
    /\ apiResp.req = <<"1", "/", "2">>
    /\ consumed = {<<1, 1>>, <<1, 2>>}

\* C3: a synchronous OpenAPIRun whose execution stops at an interrupt
\* answers with the InterruptNotSupported error and no execution, and no
\* OpenAPIRun answers with an execution whose status is Interrupted.
C3_SyncInterruptNotSupported ==
    [][apiResp'.op = "OpenAPIRun" =>
         /\ (\E e \in RunIDs : exes[e].status = "None" /\ exes'[e].status = "Interrupted")
              => (apiResp'.err = "ErrInterruptNotSupported" /\ apiResp'.exe = 0)
         /\ apiResp'.exe # 0 => exes'[apiResp'.exe].status # "Interrupted"]_vars

\* a synchronous run has stopped at an interrupt
C3_Witness ==
    /\ apiResp.op = "OpenAPIRun"
    /\ apiResp.err = "ErrInterruptNotSupported"
    /\ \E e \in RunIDs : exes[e].status = "Interrupted" /\ exes[e].pending = 1

\* this step feeds the converter a StateMessage of the streamed execution
FedStreamedState(status) ==
    /\ FedStep
    /\ stream.by \in {"StreamExecute", "StreamResume"}
    /\ lastMsg'.kind = "state"
    /\ lastMsg'.ExecuteID = stream.exe
    /\ lastMsg'.Status = status

\* this step emits exactly one client event, of this kind
EmitsOne(event) ==
    /\ Len(events') = Len(events) + 1
    /\ SubSeq(events', 1, Len(events)) = events
    /\ events'[Len(events')].Event = event

\* C5: for a StateMessage Interrupted of the streamed execution the stream
\* emits exactly one Interrupt event, whose event id is
\* "<executionID>/<interruptEventID>" of that execution and of the
\* InterruptEvent of the message, on the stream of a StreamExecute and on
\* the stream of a StreamResume.
C5_InterruptEventID ==
    [][FedStreamedState("Interrupted") =>
         /\ EmitsOne("Interrupt")
         /\ events'[Len(events')].InterruptData # Nil
         /\ events'[Len(events')].InterruptData[1].EventID =
               Itoa(stream.exe) \o <<"/">> \o Itoa(lastMsg'.InterruptEvent.ID)]_vars

\* the stream of a StreamResume has ended with an Interrupt event
C5_Witness ==
    /\ stream.by = "StreamResume"
    /\ lastMsg.kind = "state" /\ lastMsg.Status = "Interrupted"
    /\ events # <<>>
    /\ events[Len(events)].Event = "Interrupt"

\* this step hands out a new stream
StreamOpened ==
    /\ apiResp'.op \in {"OpenAPIStreamRun", "OpenAPIStreamResume"}
    /\ apiResp'.err = ""

\* C6: for a StateMessage Success of the root execution the stream emits
\* exactly one Done event, and after a Done event the stream emits no
\* further client event.
C6_DoneOnceAndLast ==
    [][/\ FedStreamedState("Success") => EmitsOne("Done")
       /\ (\E i \in 1..Len(events) : events[i].Event = "Done")
            => (events' = events \/ StreamOpened)]_vars

\* a stream has ended with Done after a chunk and a dropped message
C6_Witness ==
    /\ ~stream.open
    /\ handled = 4
    /\ Len(events) = 2
    /\ events[1].Event = "Message"
    /\ events[2].Event = "Done"

(***************************************************************************)
(* Claims about the success rate of GetProcess (checked under SpecRate).   *)
(***************************************************************************)
\* the returned NodeResults with status Success
SuccessResults ==
    {i \in 1..Len(processResp[1].NodeResults) :
        processResp[1].NodeResults[i].NodeStatus = "Success"}

\* the hundredths a rate string names: its digits without the point
RateHundredths(rate) ==
    DigitsValue(SelectSeq(rate, LAMBDA c : c # "."), 0)

C27_InterruptedReportedRunning ==
    processResp # Nil =>
        /\ processResp[1].ExecuteStatus # "Interrupted"
        /\ wfExeEntity.Status = "Interrupted" =>
              /\ processResp[1].ExecuteStatus = "Running"
              /\ Len(processResp[1].NodeEvents) = Len(wfExeEntity.InterruptEvents)
              /\ \A i \in 1..Len(wfExeEntity.InterruptEvents) :
                    ParseInt(processResp[1].NodeEvents[i].ID)
                      = [ok |-> TRUE, val |-> wfExeEntity.InterruptEvents[i].ID]

\* an execution stored as Interrupted with two pending interrupt events, one
\* of them raised by a workflow tool, has been polled
C27_Witness ==
    /\ processResp # Nil
    /\ wfExeEntity.Status = "Interrupted"
    /\ Len(wfExeEntity.InterruptEvents) = 2
    /\ wfExeEntity.InterruptEvents[1].EventType = "LLM"
    /\ processResp[1].NodeEvents[1].Type = "Input"
    /\ processResp[1].NodeEvents[2].ID = <<"1">>

(***************************************************************************)
(* Claims about the run operations (checked under SpecRun).                *)
(***************************************************************************)
\* the operations that run a workflow
RunOperations == {"TestRun", "NodeDebug", "OpenAPIRun", "OpenAPIStreamRun"}

\* the request sets an app id (for the debug operations: a project id) and a
\* bot id, both of them numbers
SetsBothIDs(op, req) ==
    LET app == IF op \in {"OpenAPIRun", "OpenAPIStreamRun"} /\ req.AppID # Nil
               THEN req.AppID ELSE req.ProjectID
    IN  /\ app # Nil /\ ParseInt(app[1]).ok
        /\ req.BotID # Nil /\ ParseInt(req.BotID[1]).ok

\* C12: TestRun, NodeDebug, OpenAPIRun and OpenAPIStreamRun answer a request
\* that sets both an app id and an agent id with an error, without calling
\* the engine and without an execution being created; so no execution is
\* created in the context of an app and of an agent at once.
C12_BothIDsRejected ==
    (runOut # Nil /\ runOut[1].op \in RunOperations) =>
        /\ SetsBothIDs(runOut[1].op, runReq[1]) =>
               /\ runOut[1].err # NilError
               /\ runOut[1].call = Nil
               /\ runOut[1].created = Nil
        /\ runOut[1].created # Nil =>
               ~(runOut[1].created[1].AppID # Nil /\ runOut[1].created[1].AgentID # Nil)

\* a member's TestRun of a request with both ids has been answered, and the
\* answer is the error of the check
C12_Witness ==
    /\ runOut # Nil
    /\ runOut[1].op = "TestRun"
    /\ ~runOut[1].panic
    /\ runReq[1].member
    /\ SetsBothIDs("TestRun", runReq[1])
    /\ runOut[1].err.cause = BothSetError.cause

\* the body of operation op on request req
BodyOf(op, req) ==
    CASE op = "TestRun" -> TestRunBody(req)
      [] op = "NodeDebug" -> NodeDebugBody(req)
      [] op = "OpenAPIRun" -> OpenAPIRunBody(req)
      [] op = "OpenAPIStreamRun" -> OpenAPIStreamRunBody(req)
      [] op = "BatchDeleteWorkflow" -> BatchDeleteWorkflowBody(req)

\* C17: a panic raised inside a public operation, for example by parsing an
\* id that is no number, is recovered and returned as a wrapped error: no
\* panic leaves an operation.
C17_NoPanicLeavesOperation ==
    runOut # Nil => ~runOut[1].panic

\* the same, only for the operations that run a workflow: no panic leaves
\* them, and the error of a recovered panic is of the execute-fail kind with
\* its cause
C17_RunOperationsRecover ==
    (runOut # Nil /\ runOut[1].op \in RunOperations) =>
        /\ ~runOut[1].panic
        /\ runOut[1].err # NilError =>
              /\ runOut[1].err.typed
              /\ runOut[1].err.cause # ""
        /\ BodyOf(runOut[1].op, runReq[1]).panic =>
              /\ runOut[1].err.code = "ErrWorkflowExecuteFail"
              /\ runOut[1].call = Nil

ExecutionOperations ==
    RunOperations \cup {"TestResume", "Cancel", "OpenAPIStreamResume"}

\* C28: every operation that starts, resumes or cancels an execution checks
\* the caller's membership of the space and invokes the engine only if that
\* check passed: no such operation calls the engine for a caller who is no
\* member.
C28_EngineOnlyForMembers ==
    (runOut # Nil /\ runOut[1].op \in ExecutionOperations /\ runOut[1].call # Nil) =>
        runReq[1].member

\* the same, for all these operations but OpenAPIStreamResume
C28_EngineOnlyForMembersButStreamResume ==
    (runOut # Nil /\ runOut[1].op \in ExecutionOperations \ {"OpenAPIStreamResume"}
       /\ runOut[1].call # Nil) =>
        runReq[1].member

(***************************************************************************)
(* Claims about the life of an execution (checked under SpecLife and,      *)
(* where the claim is about what eventually happens, SpecLifeFair).        *)
(***************************************************************************)
\* Cancel has just been accepted for the execution of the test run, which is
\* running
CancelAccepted ==
    /\ apiResp.op = "Cancel"
    /\ apiResp.err = ""
    /\ Scheduled
    /\ ParseInt(apiResp.req).val = sched.exe

StatusOfRun == IF sched.exe = 0 THEN "None" ELSE exes[sched.exe].status

\* C13: once Cancel is accepted for a running execution, the execution
\* eventually reports Cancelled; the signal is observed at a node boundary
\* only (no node is in the middle of its step when the execution becomes
\* Cancelled, and an executing node leaves its step by ending it), and no
\* node starts once the signal is set, so one boundary check suffices.
C13_CancelObservedAtBoundary ==
    /\ CancelAccepted ~> (StatusOfRun = "Cancelled")
    /\ [][/\ (StatusOfRun' = "Cancelled" /\ StatusOfRun # "Cancelled") =>
                (Executing = {} /\ sched.signal)
          /\ \A n \in Executing : n \in Executing' \/ sched'.nodes[n] \in StepOutcomes
          /\ sched.signal =>
                \A n \in ChainNodes :
                    sched'.nodes[n] = "Running" => sched.nodes[n] = "Running"]_vars

\* the execution was cancelled after its first node had completed, before
\* the second one started
C13_Witness ==
    /\ StatusOfRun = "Cancelled"
    /\ sched.nodes[1] = "Success"
    /\ sched.nodes[MaxChain] = "Waiting"

TerminalStatuses == {"Success", "Failed", "Cancelled"}

\* the answer to an accepted TestResume of interrupt event v of execution e
ResumeAnswerOf(e, v) ==
    Answer("TestResume", Itoa(e) \o <<"/">> \o Itoa(v), NilError, 0)

\* C14: an execution is created Running; no step changes the status of an
\* execution that is Success, Failed or Cancelled; and an execution leaves
\* Interrupted only for Running, in the step of a resume that named its
\* pending interrupt event.
C14_StatusTransitions ==
    [][\A e \in RunIDs :
          /\ (exes[e].status = "None" /\ exes'[e].status # "None") =>
                exes'[e].status = "Running"
          /\ exes[e].status \in TerminalStatuses => exes'[e].status = exes[e].status
          /\ (exes[e].status = "Interrupted" /\ exes'[e].status # "Interrupted") =>
                /\ exes'[e].status = "Running"
                /\ apiResp' = ResumeAnswerOf(e, exes[e].pending)]_vars

\* a resume was refused for an execution that had succeeded after an
\* interrupt and its resume
C14_Witness ==
    /\ apiResp.op = "TestResume"
    /\ apiResp.err # ""
    /\ StatusOfRun = "Success"
    /\ consumed # {}

\* C15: a node that completed or failed is never executed again, and a
\* resume leaves the nodes as they were: the suspended node goes on, through
\* any number of interrupts and resumes.
C15_NoReexecutionAfterResume ==
    [][/\ \A n \in ChainNodes :
             sched.nodes[n] \in {"Success", "Failed"} => sched'.nodes[n] = sched.nodes[n]
       /\ (StatusOfRun = "Interrupted" /\ StatusOfRun' = "Running") =>
             /\ sched'.nodes = sched.nodes
             /\ Executing' = {n \in ChainNodes : sched.nodes[n] = "Suspended"}]_vars

\* the execution was interrupted in its last node after the first one had
\* completed, was resumed, and has succeeded
C15_Witness ==
    /\ StatusOfRun = "Success"
    /\ <<sched.exe, 1>> \in consumed
    /\ sched.nodes[1] = "Success"
    /\ exes[sched.exe].lastEvent = 1

(***************************************************************************)
(* Claims about the versions of a workflow (checked under SpecVersion).    *)
(***************************************************************************)
\* C16: under any sequence of saves and publishes, reading a version that
\* exists returns what the first read of that version returned, and reading
\* the draft returns the schema of the most recent save.
C16_VersionsImmutableDraftLatest ==
    /\ (verOut.op = "GetWorkflowDetailInfo" /\ verOut.err = "") =>
          verOut.schema = seen.first[verOut.version]
    /\ (verOut.op = "GetCanvasInfo" /\ verOut.err = "" /\ seen.saved # Nil) =>
          verOut.schema = seen.saved[1]
    /\ \A v \in DOMAIN seen.first :
          v \in DOMAIN store.versions /\ store.versions[v] = seen.first[v]

\* a version is read again after the draft was saved with another schema and
\* published as another version
C16_Witness ==
    /\ verOut.op = "GetWorkflowDetailInfo"
    /\ verOut.err = ""
    /\ verOut.version \in DOMAIN seen.first
    /\ verOut.schema # store.draft
    /\ DOMAIN store.versions = Versions
    /\ seen.saved = Some(store.draft)

(***************************************************************************)
(* Claims about the node icon URL cache (checked under SpecCache).         *)
(***************************************************************************)
\* C20: every access to the node icon URL cache is made under its mutex:
\* whoever is in the middle of a write holds the mutex, who is in the middle
\* of a read has every writer shut out, and so no read runs beside a write.
C20_CacheAccessUnderMutex ==
    /\ \A w \in Writing : icon.mu = w
    /\ Reading # {} => Writing = {}

\* the same, only for the writes: a goroutine in the middle of a write holds
\* the mutex, and no two write at once
C20_WritesUnderMutex ==
    /\ \A w \in Writing : icon.mu = w
    /\ Cardinality(Writing) <= 1

(***************************************************************************)
(* Claims about the scheduler (checked under SpecDag).                     *)
(***************************************************************************)
\* the nodes that have started
DagStarted == {n \in DagNodes : dag.nodes[n] # "Waiting"}

\* C21: a node starts executing only after every source node of each of its
\* inbound edges has completed: the sources of every node that has started
\* have completed, and no two nodes joined by an edge run at the same time
C21_StartsAfterSources ==
    /\ \A n \in DagStarted : \A m \in Sources(n) : dag.nodes[m] = "Success"
    /\ \A n, m \in DagNodes :
          dag.nodes[n] = "Running" /\ dag.nodes[m] = "Running" =>
              <<n, m>> \notin dag.edges

\* two nodes with no dependency between them run at the same time, after
\* their common source has completed
C21_Witness ==
    /\ dag.edges = {<<1, 2>>, <<1, 3>>}
    /\ dag.nodes = [n \in DagNodes |-> IF n = 1 THEN "Success" ELSE "Running"]

(***************************************************************************)
(* Claims about the input of NodeDebug (checked under SpecDebug).          *)
(***************************************************************************)
\* the value the claim gives key k of the single input map
ValueByPrecedence(req, k) ==
    IF k \in DOMAIN req.Setting THEN req.Setting[k]
    ELSE IF k \in DOMAIN req.Batch THEN req.Batch[k]
    ELSE req.Input[k]

\* C24: the input NodeDebug passes to AsyncExecuteNode is one map whose key
\* set is the union of the keys of the request's input, batch and setting
\* maps; for a key in more than one of them the setting value wins over the
\* batch value, and the batch value over the input value.
C24_MergedInputPrecedence ==
    (debug.out # Nil /\ debug.out[1].call # Nil) =>
        LET req == debug.req[1]
            input == debug.out[1].call[1].input IN
        /\ debug.out[1].call[1].op = "AsyncExecuteNode"
        /\ DOMAIN input = DOMAIN req.Input \cup DOMAIN req.Batch \cup DOMAIN req.Setting
        /\ \A k \in DOMAIN input : input[k].value = ValueByPrecedence(req, k)

\* a request with one key in all three maps and one in the input and the
\* batch map only, with different values, has been passed on
C24_Witness ==
    /\ debug.out # Nil
    /\ debug.out[1].call # Nil
    /\ debug.req[1].Input = [k \in InputKeys |-> "x"]
    /\ debug.req[1].Batch = [k \in InputKeys |-> "y"]
    /\ debug.req[1].Setting = [k \in {<<"1">>} |-> "x"]
    /\ debug.out[1].call[1].input[<<"2">>].value = "y"

(***************************************************************************)
(* Claims about GetWorkflowDetailInfo on a filter list (checked under      *)
(* SpecDetail).                                                            *)
(***************************************************************************)
\* the version filter i of the request asks for: "" for the draft
AskedVersion(i) ==
    LET wf == detail.req[1].FilterList[i] IN
    IF wf.WorkflowVersion = Nil THEN "" ELSE wf.WorkflowVersion[1]

\* the answer holds filter i resolved as it was asked: a detail entry of
\* the id with that version
ResolvedAsAsked(i) ==
    \E j \in 1..Len(detail.out[1].List) :
        /\ detail.out[1].List[j].WorkflowID = detail.req[1].FilterList[i].WorkflowID
        /\ detail.out[1].List[j].FlowVersion = AskedVersion(i)

\* the answer holds one detail entry per filter and one inputs entry per id
OneEntryEach ==
    /\ Len(detail.out[1].List) = Len(detail.req[1].FilterList)
    /\ DOMAIN detail.out[1].Inputs =
          {detail.req[1].FilterList[i].WorkflowID : i \in 1..Len(detail.req[1].FilterList)}

\* no id is named by two filters of the request
DistinctIDs ==
    \A i, j \in 1..Len(detail.req[1].FilterList) :
        detail.req[1].FilterList[i].WorkflowID = detail.req[1].FilterList[j].WorkflowID => i = j

\* C25: in the answer to one GetWorkflowDetailInfo request every id given
\* with a non-empty version is resolved from exactly that version and every
\* id given without one from its draft, with one detail entry and one
\* inputs entry per requested id, also when the request mixes both kinds or
\* names the same id more than once.
C25_EachFilterResolvedAsAsked ==
    (detail.out # Nil /\ detail.out[1].err = "") =>
        /\ \A i \in 1..Len(detail.req[1].FilterList) : ResolvedAsAsked(i)
        /\ OneEntryEach

\* the same, only for requests that name no id more than once
C25_DistinctIDsResolvedAsAsked ==
    (detail.out # Nil /\ detail.out[1].err = "" /\ DistinctIDs) =>
        /\ \A i \in 1..Len(detail.req[1].FilterList) : ResolvedAsAsked(i)
        /\ OneEntryEach
        /\ \A i \in 1..Len(detail.req[1].FilterList) :
              detail.out[1].Inputs[detail.req[1].FilterList[i].WorkflowID]
                = <<detail.req[1].FilterList[i].WorkflowID, AskedVersion(i)>>

(***************************************************************************)
(* Claims about CheckLoginStatusPost (checked under SpecLogin).            *)
(***************************************************************************)
\* C26: CheckLoginStatusPost sets a session cookie only when the external
\* service validated the token with a non-empty account and the login or
\* the fallback registration succeeded; when the login and the registration
\* both fail it answers with an error and sets no cookie.
C26_CookieOnlyAfterLoginOrRegister ==
    \A r \in LoginRequests :
        LET req == login.reqs[r] IN
        /\ req.cookie # Nil =>
              /\ req.ctx # ""
              /\ req.account # ""
              /\ req.login = "ok" \/ (req.login = "failed" /\ req.register = "ok")
              /\ req.status = 200
        /\ (req.login = "failed" /\ req.register = "failed") =>
              /\ req.pc = "done"
              /\ req.status = 500
              /\ req.cookie = Nil

\* two requests for the same account both failed to log in, the first one
\* registered the user and got its cookie, and the registration of the other
\* failed
C26_Witness ==
    /\ login.reqs[1].account = "a"
    /\ login.reqs[2].account = "a"
    /\ login.reqs[1].login = "failed"
    /\ login.reqs[1].register = "ok"
    /\ login.reqs[1].cookie # Nil
    /\ login.reqs[2].login = "failed"
    /\ login.reqs[2].register = "failed"
    /\ login.reqs[2].status = 500
    /\ login.users = {"a"}

(***************************************************************************)
(* Claims about loadPluginProductMeta (checked under SpecPlugin).          *)
(***************************************************************************)
\* PluginInfo.GetPluginAllTools: the tools of the plugin that toolProducts
\* holds
GetPluginAllTools(pi) ==
    {plugins.toolProducts[t] :
        t \in {pi.ToolIDs[i] : i \in 1..Len(pi.ToolIDs)} \cap DOMAIN plugins.toolProducts}

\* C30: after loadPluginProductMeta has returned without error, every plugin
\* in pluginProducts has at least one tool id, every tool id a plugin lists
\* is a key of toolProducts whose tool names that plugin as its owner, every
\* tool in toolProducts belongs to a plugin in pluginProducts, no tool id is
\* owned by two plugins, and of several metadata entries with the same
\* plugin id at most one is loaded.
C30_PluginAndToolProductsConsistent ==
    plugins.returned =>
        /\ \A p \in DOMAIN plugins.pluginProducts :
              LET pi == plugins.pluginProducts[p] IN
              /\ Len(pi.ToolIDs) >= 1
              /\ \A i \in 1..Len(pi.ToolIDs) :
                    /\ pi.ToolIDs[i] \in DOMAIN plugins.toolProducts
                    /\ plugins.toolProducts[pi.ToolIDs[i]].PluginID = p
              /\ Cardinality(GetPluginAllTools(pi)) = Len(pi.ToolIDs)
        /\ \A t \in DOMAIN plugins.toolProducts :
              plugins.toolProducts[t].PluginID \in DOMAIN plugins.pluginProducts
        /\ \A p, q \in DOMAIN plugins.pluginProducts :
              \A i \in 1..Len(plugins.pluginProducts[p].ToolIDs),
                 j \in 1..Len(plugins.pluginProducts[q].ToolIDs) :
                  plugins.pluginProducts[p].ToolIDs[i] = plugins.pluginProducts[q].ToolIDs[j]
                      => (p = q /\ i = j)
        /\ \A p \in DOMAIN plugins.kept : plugins.kept[p] <= 1

\* the function has returned with two plugins loaded and a third entry
\* skipped for the plugin id of one of them
C30_Witness ==
    /\ plugins.returned
    /\ DOMAIN plugins.pluginProducts = {1, 2}
    /\ 1 \in plugins.duplicate
    /\ CountOf(plugins.kept, 1) = 1
    /\ plugins.pluginProducts[1].ToolIDs = <<3>>
    /\ plugins.pluginProducts[2].ToolIDs = <<2, 1>>

====
